---- MODULE Spec2Model ----
(***************************************************************************)
(* Law engine of politicGame: the code validator, the sandboxed executor,  *)
(* the trigger/manager layer (src/app/law_system.py) and the handlers that *)
(* create, activate and register laws (src/app/views/laws.py); and the     *)
(* rule language of src/app/law_parser.py: its tokenizer, its structural   *)
(* parser and the LawEnforcer that indexes rules and answers               *)
(* check_permission; and the integration layer of                          *)
(* src/app/law_integration.py on top of app.trigger_laws.                  *)
(*                                                                         *)
(* Python strings built with f-strings are modelled as records             *)
(* [str |-> <<part, ...>>], the parts in order, so that a prefix added by  *)
(* the code is visible; the Russian literals of the source are written in  *)
(* ASCII.  Python's None is PyNone.                                        *)
(***************************************************************************)
EXTENDS Integers, Sequences, FiniteSets, TLC

VARIABLES
    laws,          \* persisted Law rows (models.Law), indexed by id
    active_laws,   \* LawManager.active_laws, a dict in insertion order
    law_enforcer,  \* the LawEnforcer object: its config and its rule index
    evaluation,    \* the frame of an evaluation in progress on another thread
    last           \* what the most recent operation was given and returned

vars == <<laws, active_laws, law_enforcer, evaluation, last>>

PyNone == [py |-> "None"]

Str(parts) == [str |-> parts]

\* a variant of Fmt that drops the prefix
Fmt_unprefixed(prefix, s) == s

\* f'{prefix}: {s}'
Fmt(prefix, s) == Str(<<prefix>> \o s.str)

-----------------------------------------------------------------------------
(* Script texts.  A text is modelled by what the interpreter makes of it:  *)
(*   parse      - how ast.parse(text) ends: "ok", or the exception raised  *)
(*   tree       - the syntax tree ast.parse returns                        *)
(*   compile_ok - compile(text, '<law>', 'exec') succeeds                  *)
(*   top        - what running the module body does, statement by statement*)
(* A tree node is [kind, name, kids]: name is Name.id, FunctionDef.name or *)
(* Attribute.attr (an attribute name is spelled character by character,    *)
(* because the validator looks at its first character).                    *)

Node(kind, name, kids) == [kind |-> kind, name |-> name, kids |-> kids]

Leaf(kind) == Node(kind, "", <<>>)

Name(id) == Node("Name", id, <<>>)

Attribute(value, attr) == Node("Attribute", attr, <<value>>)

Call(func, args) == Node("Call", "", <<func>> \o args)

FunctionDef(name, body) == Node("FunctionDef", name, <<Leaf("arguments")>> \o body)

Module(body) == Node("Module", "", body)

Return(value) == Node("Return", "", <<value>>)

\* a dict display {'action': ...}
DictLit == Node("Dict", "", <<Leaf("Constant"), Leaf("Constant")>>)

\* 1/0
DivZero == Node("BinOp", "", <<Leaf("Constant"), Leaf("Div"), Leaf("Constant")>>)

Allow == [action |-> "allow"]

DenyX == [action |-> "deny", reason |-> "x"]

\* the statements of a function body or of the module body, as run
Read(name) == [op |-> "read", name |-> name]

Bind(name, val) == [op |-> "bind", name |-> name, val |-> val]

SetContext(field, val) == [op |-> "set_context", field |-> field, val |-> val]

Raise(err) == [op |-> "raise", err |-> err]

Loop == [op |-> "loop"]

\* api.<attr>
GetApi(attr) == [op |-> "getattr", attr |-> attr]

\* the db_session object the host gave to LawExecutor
DbSession == [host |-> "db_session"]

Ret(val) == [op |-> "return", val |-> val]

Func(nargs, body) == [callable |-> TRUE, nargs |-> nargs, body |-> body]

Const(v) == [callable |-> FALSE, val |-> v]

Script(id, parse, tree, compile_ok, top) ==
    [id |-> id, parse |-> parse, tree |-> tree,
     compile_ok |-> compile_ok, top |-> top]

ApplyDef(body) == FunctionDef("apply", body)

attr_cache == <<"_", "c", "a", "c", "h", "e">>

attr_log_action == <<"l", "o", "g", "_", "a", "c", "t", "i", "o", "n">>

attr_action == <<"a", "c", "t", "i", "o", "n">>

attr_db == <<"d", "b">>

attr_nothing == <<"n", "o", "t", "h", "i", "n", "g">>

\* def apply(): return {'action': 'allow'}
S_allow ==
    Script("allow", "ok", Module(<<ApplyDef(<<Return(DictLit)>>)>>), TRUE,
           <<Bind("apply", Func(0, <<Ret(Allow)>>))>>)

\* def apply(): return {'action': 'deny', 'reason': 'x'}
S_deny ==
    Script("deny", "ok", Module(<<ApplyDef(<<Return(DictLit)>>)>>), TRUE,
           <<Bind("apply", Func(0, <<Ret(DenyX)>>))>>)

\* import os / def apply(): return {'action': 'allow'}
S_import ==
    Script("import", "ok",
           Module(<<Node("Import", "", <<Leaf("alias")>>),
                    ApplyDef(<<Return(DictLit)>>)>>), TRUE,
           <<Raise("import"), Bind("apply", Func(0, <<Ret(Allow)>>))>>)

\* def apply(): from datetime import datetime; return {'action': 'allow'}
S_import_datetime ==
    Script("import_datetime", "ok",
           Module(<<ApplyDef(<<Node("ImportFrom", "", <<Leaf("alias")>>),
                                Return(DictLit)>>)>>), TRUE,
           <<Bind("apply", Func(0, <<Raise("import"), Ret(Allow)>>))>>)

\* def apply(): return eval('1')
S_eval ==
    Script("eval", "ok",
           Module(<<ApplyDef(<<Return(Call(Name("eval"), <<Leaf("Constant")>>))>>)>>),
           TRUE,
           <<Bind("apply", Func(0, <<Read("eval"), Ret(Allow)>>))>>)

\* def apply(): return getattr(api, 'db')
S_getattr ==
    Script("getattr", "ok",
           Module(<<ApplyDef(<<Return(Call(Name("getattr"),
                                           <<Name("api"), Leaf("Constant")>>))>>)>>),
           TRUE,
           <<Bind("apply", Func(0, <<Read("getattr"), Ret(Allow)>>))>>)

\* def apply(): return api._cache
S_private ==
    Script("private", "ok",
           Module(<<ApplyDef(<<Return(Attribute(Name("api"), attr_cache))>>)>>),
           TRUE,
           <<Bind("apply", Func(0, <<Read("api"), Ret(Allow)>>))>>)

\* def apply(): api.log_action('x'); return {'action': 'allow'}
S_log ==
    Script("log", "ok",
           Module(<<ApplyDef(<<Node("Expr", "",
                                    <<Call(Attribute(Name("api"), attr_log_action),
                                           <<Leaf("Constant")>>)>>),
                                Return(DictLit)>>)>>),
           TRUE,
           <<Bind("apply", Func(0, <<Read("api"), GetApi("log_action"),
                                     Ret(Allow)>>))>>)

\* def apply(:
S_syntax == Script("syntax", "SyntaxError", Module(<<>>), FALSE, <<>>)

\* x = 1
S_noapply ==
    Script("noapply", "ok",
           Module(<<Node("Assign", "", <<Name("x"), Leaf("Constant")>>)>>), TRUE,
           <<Bind("x", Const(1))>>)

\* def apply(): return 1/0
S_raise ==
    Script("raise", "ok", Module(<<ApplyDef(<<Return(DivZero)>>)>>), TRUE,
           <<Bind("apply", Func(0, <<Raise("division by zero")>>))>>)

\* y = 1/0 / def apply(): return {'action': 'allow'}
S_topraise ==
    Script("topraise", "ok",
           Module(<<Node("Assign", "", <<Name("y"), DivZero>>),
                    ApplyDef(<<Return(DictLit)>>)>>), TRUE,
           <<Raise("division by zero"), Bind("apply", Func(0, <<Ret(Allow)>>))>>)

\* def helper(): return {'action': 'allow'} / def apply(): return helper()
S_helper ==
    Script("helper", "ok",
           Module(<<FunctionDef("helper", <<Return(DictLit)>>),
                    ApplyDef(<<Return(Call(Name("helper"), <<>>))>>)>>), TRUE,
           <<Bind("helper", Func(0, <<Ret(Allow)>>)),
             Bind("apply", Func(0, <<Read("helper"), Ret(Allow)>>))>>)

\* LIMIT = {'action': 'deny', 'reason': 'x'} / def apply(): return LIMIT
S_const ==
    Script("const", "ok",
           Module(<<Node("Assign", "", <<Name("LIMIT"), DictLit>>),
                    ApplyDef(<<Return(Name("LIMIT"))>>)>>), TRUE,
           <<Bind("LIMIT", Const(DenyX)),
             Bind("apply", Func(0, <<Read("LIMIT"), Ret(DenyX)>>))>>)

\* def apply(): while True: pass
S_loop ==
    Script("loop", "ok",
           Module(<<ApplyDef(<<Node("While", "",
                                    <<Leaf("Constant"), Leaf("Pass")>>)>>)>>), TRUE,
           <<Bind("apply", Func(0, <<Loop>>))>>)

\* context.action = 'time_check' / def apply(): return 1/0
S_mutate_fail ==
    Script("mutate_fail", "ok",
           Module(<<Node("Assign", "",
                         <<Attribute(Name("context"), attr_action), Leaf("Constant")>>),
                    ApplyDef(<<Return(DivZero)>>)>>), TRUE,
           <<Read("context"), SetContext("action", "time_check"),
             Bind("apply", Func(0, <<Raise("division by zero")>>))>>)

\* def apply(): context.action = 'other'; return {'action': 'allow'}
S_mutate_ok ==
    Script("mutate_ok", "ok",
           Module(<<ApplyDef(<<Node("Assign", "",
                                    <<Attribute(Name("context"), attr_action),
                                      Leaf("Constant")>>),
                                Return(DictLit)>>)>>), TRUE,
           <<Bind("apply", Func(0, <<Read("context"), SetContext("action", "other"),
                                     Ret(Allow)>>))>>)

\* return 1      (parses; compile() rejects 'return' outside function)
S_return_top ==
    Script("return_top", "ok", Module(<<Return(Leaf("Constant"))>>), FALSE, <<>>)

\* x = 1 / del x / def apply(): return {'action': 'allow'}
S_del ==
    Script("del", "ok",
           Module(<<Node("Assign", "", <<Name("x"), Leaf("Constant")>>),
                    Node("Delete", "", <<Name("x")>>),
                    ApplyDef(<<Return(DictLit)>>)>>), TRUE,
           <<Bind("x", Const(1)), Bind("apply", Func(0, <<Ret(Allow)>>))>>)

\* def apply(): global x; return {'action': 'allow'}
S_global ==
    Script("global", "ok",
           Module(<<ApplyDef(<<Leaf("Global"), Return(DictLit)>>)>>), TRUE,
           <<Bind("apply", Func(0, <<Ret(Allow)>>))>>)

\* def apply():
\*     n = 0
\*     def bump():
\*         nonlocal n
\*     return {'action': 'allow'}
S_nonlocal ==
    Script("nonlocal", "ok",
           Module(<<ApplyDef(<<Node("Assign", "", <<Name("n"), Leaf("Constant")>>),
                                FunctionDef("bump", <<Leaf("Nonlocal")>>),
                                Return(DictLit)>>)>>), TRUE,
           <<Bind("apply", Func(0, <<Ret(Allow)>>))>>)

\* def apply(x): return {'action': 'allow'}
S_args ==
    Script("args", "ok",
           Module(<<FunctionDef("apply", <<Leaf("arg"), Return(DictLit)>>)>>), TRUE,
           <<Bind("apply", Func(1, <<Ret(Allow)>>))>>)

\* apply = 5
S_apply_int ==
    Script("apply_int", "ok",
           Module(<<Node("Assign", "", <<Name("apply"), Leaf("Constant")>>)>>), TRUE,
           <<Bind("apply", Const(5))>>)

\* def apply(): pass
S_pass ==
    Script("pass", "ok", Module(<<ApplyDef(<<Leaf("Pass")>>)>>), TRUE,
           <<Bind("apply", Func(0, <<>>))>>)

\* def open(): return 1 / def apply(): return {'action': 'allow'}
S_def_open ==
    Script("def_open", "ok",
           Module(<<FunctionDef("open", <<Return(Leaf("Constant"))>>),
                    ApplyDef(<<Return(DictLit)>>)>>), TRUE,
           <<Bind("open", Func(0, <<Ret(1)>>)),
             Bind("apply", Func(0, <<Ret(Allow)>>))>>)

\* def apply(): return 1+1+ ... +1      (5000 terms: the parser gives up
\* with "maximum recursion depth exceeded during ast construction")
S_deep == Script("deep", "RecursionError", Module(<<>>), FALSE, <<>>)

\* def apply(): return {'action': 'info', 'message': api.db}
S_api_db ==
    Script("api_db", "ok",
           Module(<<ApplyDef(<<Return(Node("Dict", "",
                                           <<Leaf("Constant"), Leaf("Constant"),
                                             Attribute(Name("api"), attr_db)>>))>>)>>),
           TRUE,
           <<Bind("apply", Func(0, <<Read("api"), GetApi("db"),
                                     Ret([action |-> "info", message |-> DbSession])>>))>>)

\* def apply(): return api.nothing
S_api_nothing ==
    Script("api_nothing", "ok",
           Module(<<ApplyDef(<<Return(Attribute(Name("api"), attr_nothing))>>)>>),
           TRUE,
           <<Bind("apply", Func(0, <<Read("api"), GetApi("nothing"), Ret(PyNone)>>))>>)

Scripts ==
    {S_allow, S_deny, S_import, S_import_datetime, S_eval, S_getattr, S_private,
     S_log, S_syntax, S_noapply, S_raise, S_topraise, S_helper, S_const, S_loop,
     S_mutate_fail, S_mutate_ok, S_return_top, S_del, S_global, S_nonlocal,
     S_args, S_apply_int, S_pass, S_def_open, S_deep, S_api_db, S_api_nothing}

-----------------------------------------------------------------------------
(* LawContext *)

LawContext(user_id, action, data) ==
    [user_id |-> user_id, action |-> action, timestamp |-> 0,
     data |-> data, session |-> PyNone]

Actions == {"vote", "time_check", "other"}

Contexts == {LawContext(1, a, [poll_id |-> 1]) : a \in Actions}

-----------------------------------------------------------------------------
(* LawValidator *)

ALLOWED_IMPORTS == {"datetime", "timedelta", "math", "re", "json"}

FORBIDDEN_NODES == {"Import", "ImportFrom", "Delete", "Global", "Nonlocal"}

FORBIDDEN_NAMES ==
    {"exec", "eval", "compile", "__import__", "open", "file", "input",
     "raw_input", "reload", "vars", "globals", "locals", "dir", "getattr",
     "setattr", "delattr", "hasattr"}

\* ast.walk: breadth first, a node before its children
RECURSIVE walk(_)
walk(todo) ==
    IF todo = <<>> THEN <<>>
    ELSE <<Head(todo)>> \o walk(Tail(todo) \o Head(todo).kids)

ast_walk(tree) == walk(<<tree>>)

\* str.startswith
startswith(s, c) == Len(s) > 0 /\ s[1] = c

NoViolation == Str(<<>>)

\* the body of validate_code's loop for one node: the message of the first
\* check that rejects the node, NoViolation when none does
check_node(node) ==
    IF node.kind \in FORBIDDEN_NODES
    THEN Str(<<"Forbidden operation", node.kind>>)
    ELSE IF node.kind = "Name" /\ node.name \in FORBIDDEN_NAMES
    THEN Str(<<"Forbidden name", node.name>>)
    ELSE IF node.kind = "Attribute" /\ startswith(node.name, "_")
    THEN Str(<<"Access to private attributes is forbidden">> \o node.name)
    ELSE IF /\ node.kind = "Call"
            /\ node.kids[1].kind = "Name"
            /\ node.kids[1].name \in {"exec", "eval", "compile"}
    THEN Str(<<"Forbidden function call", node.kids[1].name>>)
    ELSE NoViolation

RECURSIVE first_violation(_)
first_violation(nodes) ==
    IF nodes = <<>> THEN NoViolation
    ELSE IF check_node(Head(nodes)) # NoViolation THEN check_node(Head(nodes))
    ELSE first_violation(Tail(nodes))

\* A call that does not return: the exception that leaves it
Raised(exc) == [raised |-> exc]

Raises(ret) == "raised" \in DOMAIN ret

\* (is_valid, message); only SyntaxError is caught around ast.parse
validate_code(code) ==
    IF code.parse = "SyntaxError"
    THEN [is_valid |-> FALSE, msg |-> Str(<<"Syntax error", "invalid syntax">>)]
    ELSE IF code.parse # "ok" THEN Raised(code.parse)
    ELSE LET bad == first_violation(ast_walk(code.tree)) IN
         IF bad # NoViolation
         THEN [is_valid |-> FALSE, msg |-> bad]
         ELSE [is_valid |-> TRUE, msg |-> Str(<<"OK">>)]

-----------------------------------------------------------------------------
(* LawExecutor *)

safe_builtins ==
    {"len", "str", "int", "float", "bool", "list", "dict", "set", "tuple",
     "range", "enumerate", "zip", "map", "filter", "max", "min", "sum", "abs",
     "round", "sorted"}

safe_globals ==
    {"__builtins__", "datetime", "timedelta", "api", "context", "True", "False",
     "None"}

safe_locals == [n \in {} |-> PyNone]

\* Where a name is looked up.  exec(code, safe_globals, safe_locals) runs the
\* module body with safe_locals as its local namespace, so a top-level def or
\* assignment is stored there; a function body looks a free name up in the
\* function's globals, which is safe_globals, and then in the builtins.
resolves(name, locals, scope) ==
    \/ name \in safe_globals
    \/ name \in safe_builtins
    \/ scope = "module" /\ name \in DOMAIN locals

\* LawAPI: the attributes __init__ sets and the methods of the class
LawAPI_operations ==
    {"get_user", "get_party", "count_users_where", "get_government", "log_action"}

LawAPI_attributes == {"context", "db", "_cache"} \cup LawAPI_operations

Ran(end, val, err, context, locals) ==
    [end |-> end, val |-> val, err |-> err, context |-> context, locals |-> locals]

\* the statements of one body, in order
RECURSIVE run(_, _, _, _)
run(steps, context, locals, scope) ==
    IF steps = <<>> THEN Ran("fallthrough", PyNone, PyNone, context, locals)
    ELSE LET s == Head(steps) IN
         CASE s.op = "bind" ->
                run(Tail(steps), context, (s.name :> s.val) @@ locals, scope)
           [] s.op = "read" ->
                IF resolves(s.name, locals, scope)
                THEN run(Tail(steps), context, locals, scope)
                ELSE Ran("raise", PyNone,
                         Str(<<"name '", s.name, "' is not defined">>),
                         context, locals)
           [] s.op = "getattr" ->
                IF s.attr \in LawAPI_attributes
                THEN run(Tail(steps), context, locals, scope)
                ELSE Ran("raise", PyNone,
                         Str(<<"'LawAPI' object has no attribute '", s.attr, "'">>),
                         context, locals)
           [] s.op = "set_context" ->
                run(Tail(steps), [context EXCEPT ![s.field] = s.val], locals, scope)
           [] s.op = "raise" -> Ran("raise", PyNone, Str(<<s.err>>), context, locals)
           [] s.op = "loop" -> Ran("loop", PyNone, PyNone, context, locals)
           [] s.op = "return" -> Ran("return", s.val, PyNone, context, locals)

ExecutionResult(success, error, result) ==
    [success |-> success, error |-> error, result |-> result]

\* the except branch of execute_law
execution_error(e) == ExecutionResult(FALSE, Fmt("Execution error", e), PyNone)

\* what a call of execute_law comes to: status "returned" with the dict it
\* returns, "raised" with the exception that leaves it, or "hung" when the
\* script never ends; context is the LawContext object after the call,
\* compiled tells whether compile() was reached
Outcome(status, ret, context, compiled) ==
    [status |-> status, ret |-> ret, context |-> context, compiled |-> compiled]

\* apply_func() for the value bound to 'apply'
call_apply(apply_func, context) ==
    IF ~apply_func.callable
    THEN Outcome("returned",
                 execution_error(Str(<<"object is not callable">>)), context, TRUE)
    ELSE IF apply_func.nargs # 0
    THEN Outcome("returned",
                 execution_error(Str(<<"apply() missing required positional argument">>)),
                 context, TRUE)
    ELSE LET r == run(apply_func.body, context, safe_locals, "function") IN
         CASE r.end = "loop" -> Outcome("hung", PyNone, r.context, TRUE)
           [] r.end = "raise" ->
                Outcome("returned", execution_error(r.err), r.context, TRUE)
           [] OTHER ->
                Outcome("returned", ExecutionResult(TRUE, PyNone, r.val),
                        r.context, TRUE)

\* the try block of execute_law: compile, exec, look up and call apply
compile_and_run(law_code, context) ==
    IF ~law_code.compile_ok
    THEN Outcome("returned",
                 execution_error(Str(<<"'return' outside function">>)),
                 context, TRUE)
    ELSE LET top == run(law_code.top, context, safe_locals, "module") IN
         CASE top.end = "loop" -> Outcome("hung", PyNone, top.context, TRUE)
           [] top.end = "raise" ->
                Outcome("returned", execution_error(top.err), top.context, TRUE)
           [] "apply" \notin DOMAIN top.locals ->
                Outcome("returned",
                        ExecutionResult(FALSE,
                                        Str(<<"A law must contain the function apply()">>),
                                        PyNone),
                        top.context, TRUE)
           [] OTHER -> call_apply(top.locals["apply"], top.context)

\* a variant of execute_law that trusts the validation done at creation
execute_law_unvalidated(law_code, context) == compile_and_run(law_code, context)

execute_law(law_code, context) ==
    LET v == validate_code(law_code) IN
    IF Raises(v) THEN Outcome("raised", v, context, FALSE)
    ELSE IF ~v.is_valid
    THEN Outcome("returned",
                 ExecutionResult(FALSE,
                                 Fmt("Law code failed the security check", v.msg),
                                 PyNone),
                 context, FALSE)
    ELSE compile_and_run(law_code, context)

-----------------------------------------------------------------------------
(* Triggers.  A trigger object is [cls, ...]; a persisted trigger spec, as  *)
(* Law.triggers returns it from triggers_json, is a plain dict [type, ...]. *)

ActionTrigger(actions) == [cls |-> "ActionTrigger", actions |-> actions]

TimeTrigger(schedule) == [cls |-> "TimeTrigger", schedule |-> schedule]

ConditionalTrigger(condition_func) ==
    [cls |-> "ConditionalTrigger", condition_func |-> condition_func]

\* x in list
In(x, list) == \E i \in 1 .. Len(list) : list[i] = x

\* trigger.should_trigger(context): "yes", "no", or "raise" when the call
\* raises (a dict has no attribute should_trigger)
should_trigger(trigger, context) ==
    IF "cls" \notin DOMAIN trigger THEN "raise"
    ELSE CASE trigger.cls = "ActionTrigger" ->
                IF In(context.action, trigger.actions) THEN "yes" ELSE "no"
           [] trigger.cls = "TimeTrigger" ->
                IF context.action = "time_check" THEN "yes" ELSE "no"
           [] trigger.cls = "ConditionalTrigger" ->
                IF trigger.condition_func.raises THEN "no"
                ELSE IF trigger.condition_func.value THEN "yes" ELSE "no"

\* the inner loop of trigger_laws, with its break
RECURSIVE should_execute(_, _)
should_execute(triggers, context) ==
    IF triggers = <<>> THEN "no"
    ELSE LET t == should_trigger(Head(triggers), context) IN
         IF t = "no" THEN should_execute(Tail(triggers), context) ELSE t

-----------------------------------------------------------------------------
(* LawManager.  active_laws is a sequence of entries in the dict's          *)
(* insertion order; an entry carries its key law_id.                        *)

Entry(law_id, law_data) ==
    [law_id |-> law_id, code |-> law_data.code, triggers |-> law_data.triggers,
     active |-> law_data.active]

LawData(code, triggers, active) ==
    [code |-> code, triggers |-> triggers, active |-> active]

Keys(table) == {table[i].law_id : i \in 1 .. Len(table)}

\* self.active_laws[law_id] = {...}: an existing key keeps its place
register_law(table, law_id, law_data) ==
    IF law_id \in Keys(table)
    THEN [i \in 1 .. Len(table) |->
             IF table[i].law_id = law_id THEN Entry(law_id, law_data) ELSE table[i]]
    ELSE Append(table, Entry(law_id, law_data))

\* LawManager.get_law_status; the metadata of an entry is not kept here
get_law_status(table, law_id) ==
    IF law_id \in Keys(table)
    THEN [active |-> (CHOOSE e \in {table[i] : i \in 1 .. Len(table)} :
                          e.law_id = law_id).active]
    ELSE [active |-> FALSE]

\* where a law stands in the manager
law_state(table, law_id) ==
    IF law_id \notin Keys(table) THEN "unregistered"
    ELSE IF get_law_status(table, law_id).active THEN "registered-active"
    ELSE "registered-inactive"

\* active_laws.pop(law_id, None)
pop(table, law_id) == SelectSeq(table, LAMBDA e : e.law_id # law_id)

\* One law's turn in the loop of trigger_laws, as observed: the context the
\* law's triggers were evaluated against, whether it was executed and whether
\* its code reached compile().
Turn(law_id, code, context, executed, compiled) ==
    [law_id |-> law_id, code |-> code, context |-> context,
     executed |-> executed, compiled |-> compiled]

Batch(status, results, context, turns) ==
    [status |-> status, results |-> results, context |-> context, turns |-> turns]

\* the loop of trigger_laws over the entries still to visit; status is
\* "returned" (results is the list returned), "raised" (an exception left
\* trigger_laws) or "hung" (an executed script never ended)
RECURSIVE trigger_loop(_, _, _, _)
trigger_loop(todo, context, results, turns) ==
    IF todo = <<>> THEN Batch("returned", results, context, turns)
    ELSE LET law == Head(todo) IN
         IF ~law.active THEN trigger_loop(Tail(todo), context, results, turns)
         ELSE LET m == should_execute(law.triggers, context) IN
              CASE m = "raise" -> Batch("raised", results, context, turns)
                [] m = "no" ->
                     trigger_loop(Tail(todo), context, results,
                                  Append(turns, Turn(law.law_id, law.code, context,
                                                     FALSE, FALSE)))
                [] m = "yes" ->
                     LET out == execute_law(law.code, context)
                         turn == Turn(law.law_id, law.code, context, TRUE,
                                      out.compiled)
                     IN  IF out.status # "returned"
                         THEN Batch(out.status, results, out.context,
                                    Append(turns, turn))
                         ELSE trigger_loop(
                                  Tail(todo), out.context,
                                  Append(results,
                                         [success |-> out.ret.success,
                                          error |-> out.ret.error,
                                          result |-> out.ret.result,
                                          law_id |-> law.law_id]),
                                  Append(turns, turn))

trigger_laws(table, context) == trigger_loop(table, context, <<>>, <<>>)

-----------------------------------------------------------------------------
(* Law texts of the rule language (src/app/law_parser.py).  A text is the   *)
(* sequence of its atoms: a word, a blank " ", a line break "NL" or a       *)
(* punctuation mark.  The Russian words of the source are transliterated:   *)
(* Polzovatel, Pravitel, Administrator are the subjects; chlen partii,      *)
(* imeet pravo, s reitingom > and s reitingom < the conditions; golosovat,  *)
(* sozdavat zakony, sozdavat partii, byt liderom partii the actions.        *)
(* A placeholder with its colon, "[CHISLO]:", is one atom.                  *)

Whitespace == {" ", "NL"}

\* str.strip()
RECURSIVE lstrip(_)
lstrip(s) == IF s # <<>> /\ Head(s) \in Whitespace THEN lstrip(Tail(s)) ELSE s

RECURSIVE rstrip(_)
rstrip(s) ==
    IF s # <<>> /\ s[Len(s)] \in Whitespace THEN rstrip(SubSeq(s, 1, Len(s) - 1))
    ELSE s

strip(s) == rstrip(lstrip(s))

\* re.split('(d1|d2|...)', text): the runs between the delimiters and, since
\* the pattern is a group, the delimiters themselves (delimiters not empty)
RECURSIVE re_split(_, _, _)
re_split(delimiters, text, part) ==
    IF text = <<>> THEN <<part>>
    ELSE IF Head(text) \in delimiters
    THEN <<part, <<Head(text)>>>> \o re_split(delimiters, Tail(text), <<>>)
    ELSE re_split(delimiters, Tail(text), Append(part, Head(text)))

\* LanguageConfig(config_data)
LanguageConfig(language, keywords, operators, delimiters, negation_words, action_mappings) ==
    [language |-> language, keywords |-> keywords, operators |-> operators,
     delimiters |-> delimiters,
     group_markers |-> [start |-> {<<"(">>, <<"[">>}, end |-> {<<")">>, <<"]">>}],
     negation_words |-> negation_words, action_mappings |-> action_mappings]

russian_keywords ==
    [subjects |-> {<<"Polzovatel">>, <<"Pravitel">>, <<"Administrator">>},
     conditions |-> {<<"chlen", " ", "partii">>, <<"imeet", " ", "pravo">>,
                     <<"s", " ", "reitingom", " ", ">">>,
                     <<"s", " ", "reitingom", " ", "<">>},
     actions |-> {<<"golosovat">>, <<"sozdavat", " ", "zakony">>,
                  <<"sozdavat", " ", "partii">>,
                  <<"byt", " ", "liderom", " ", "partii">>},
     modifiers |-> {<<"esli">>, <<"i">>, <<"ili">>, <<"ne">>}]

russian_operators ==
    [comparison |-> {<<">">>, <<"<">>, <<">=">>, <<"<=">>, <<"==">>, <<"!=">>},
     logical |-> {<<"i">>, <<"ili">>, <<"ne">>}]

russian_action_mappings ==
    {<<<<"golosovat">>, <<"vote">>>>,
     <<<<"sozdavat", " ", "zakony">>, <<"create_law">>>>,
     <<<<"sozdavat", " ", "partii">>, <<"create_party">>>>,
     <<<<"byt", " ", "liderom", " ", "partii">>, <<"be_party_leader">>>>,
     <<<<"imeet", " ", "pravo">>, <<"has_permission">>>>}

\* LanguageConfig.create_default('russian')
create_default ==
    LanguageConfig("russian", russian_keywords, russian_operators,
                   {";", ",", "."}, {<<"ne">>}, russian_action_mappings)

\* the same vocabulary with the line break as the only delimiter, as
\* LanguageConfig builds it from config_data with 'delimiters': ['\n']
line_config ==
    LanguageConfig("russian", russian_keywords, russian_operators,
                   {"NL"}, {<<"ne">>}, russian_action_mappings)

\* Token; original = "" stands for None
Token(type, value, original) == [type |-> type, value |-> value, original |-> original]

Digits == {"5", "50"}

Dates == {"2024-01-01"}

\* re.match of the five placeholder patterns, in the order of the dict; the
\* answer is the token, or PyNone when no pattern matches
match_placeholder(text) ==
    LET rest == IF Len(text) < 3 THEN {}
                ELSE {k \in 3 .. Len(text) : text[k] = ";"}
        stop == IF rest = {} THEN Len(text) + 1
                ELSE CHOOSE k \in rest : \A j \in rest : k <= j
        group == SubSeq(text, 2, stop - 1)
        lazy == /\ Len(text) >= 2
                /\ \A j \in 1 .. Len(group) : group[j] # "NL"
    IN  IF text = <<>> THEN PyNone
        ELSE IF text[1] = "[CHISLO]:" /\ Len(text) >= 2 /\ text[2] \in Digits
        THEN Token("VALUE", <<text[2]>>, "[CHISLO]")
        ELSE IF text[1] = "[STROKA]:" /\ lazy
        THEN Token("VALUE", group, "[STROKA]")
        ELSE IF text[1] = "[POLZOVATEL]:" /\ lazy
        THEN Token("VALUE", group, "[POLZOVATEL]")
        ELSE IF text[1] = "[PARTIYA]:" /\ lazy
        THEN Token("VALUE", group, "[PARTIYA]")
        ELSE IF text[1] = "[DATA]:" /\ Len(text) >= 2 /\ text[2] \in Dates
        THEN Token("VALUE", <<text[2]>>, "[DATA]")
        ELSE PyNone

\* RegexTokenizer._keyword_to_token_type
keyword_to_token_type(keyword_type) ==
    CASE keyword_type = "subjects" -> "SUBJECT"
      [] keyword_type = "conditions" -> "CONDITION"
      [] keyword_type = "actions" -> "ACTION"
      [] keyword_type = "modifiers" -> "MODIFIER"
      [] OTHER -> "VALUE"

\* RegexTokenizer._classify_token
classify_token(text, config) ==
    IF match_placeholder(text) # PyNone THEN match_placeholder(text)
    ELSE IF text \in config.group_markers.start THEN Token("GROUP_START", text, "")
    ELSE IF text \in config.group_markers.end THEN Token("GROUP_END", text, "")
    ELSE IF Len(text) = 1 /\ text[1] \in config.delimiters
    THEN Token("DELIMITER", text, "")
    ELSE IF text \in config.operators.comparison \cup config.operators.logical
    THEN Token("OPERATOR", text, "")
    ELSE IF text \in config.keywords.subjects
    THEN Token(keyword_to_token_type("subjects"), text, "")
    ELSE IF text \in config.keywords.conditions
    THEN Token(keyword_to_token_type("conditions"), text, "")
    ELSE IF text \in config.keywords.actions
    THEN Token(keyword_to_token_type("actions"), text, "")
    ELSE IF text \in config.keywords.modifiers
    THEN Token(keyword_to_token_type("modifiers"), text, "")
    ELSE IF text \in {<<"[CHISLO]">>, <<"[STROKA]">>, <<"[POLZOVATEL]">>,
                      <<"[PARTIYA]">>, <<"[DATA]">>}
    THEN Token("PLACEHOLDER", text, "")
    ELSE Token("VALUE", text, "")

\* the loop of tokenize over the parts: a part that is empty once stripped
\* gives no token
RECURSIVE classify_parts(_, _)
classify_parts(parts, config) ==
    IF parts = <<>> THEN <<>>
    ELSE LET part == strip(Head(parts)) IN
         (IF part = <<>> THEN <<>> ELSE <<classify_token(part, config)>>)
         \o classify_parts(Tail(parts), config)

\* RegexTokenizer.tokenize
tokenize(text, config) == classify_parts(re_split(config.delimiters, text, <<>>), config)

-----------------------------------------------------------------------------
(* StructuralParser and UniversalLawParser.  A loop of the source that      *)
(* comes back to the token it has just handled never ends: its result is    *)
(* Hung.                                                                    *)

Hung == [hung |-> TRUE]

IsHung(result) == "hung" \in DOMAIN result

\* the structure StructuralParser.parse starts from; 'conditional_blocks'
\* and 'metadata' are never written
EmptyStructure ==
    [subjects |-> <<>>, conditions |-> <<>>, actions |-> <<>>, operators |-> <<>>,
     values |-> <<>>, groups |-> <<>>, negation |-> FALSE]

\* d[key] = value on a dict kept as the sequence of its items
dict_set(d, key, value) ==
    IF \E j \in 1 .. Len(d) : d[j].key = key
    THEN [j \in 1 .. Len(d) |->
            IF d[j].key = key THEN [key |-> key, value |-> value] ELSE d[j]]
    ELSE Append(d, [key |-> key, value |-> value])

\* the while loop of _extract_parameters; i is the index the loop stops at
RECURSIVE extract_parameters_loop(_, _, _)
extract_parameters_loop(tokens, i, parameters) ==
    IF i <= Len(tokens) /\ tokens[i].type \in {"VALUE", "OPERATOR"}
    THEN LET taken == Append(parameters,
                             [type |-> IF tokens[i].type = "VALUE" THEN "value"
                                       ELSE "operator",
                              value |-> tokens[i].value])
         IN  IF /\ i + 1 <= Len(tokens)
                /\ tokens[i + 1].type \in {"DELIMITER", "SUBJECT", "CONDITION", "ACTION"}
             THEN [parameters |-> taken, i |-> i + 1]
             ELSE extract_parameters_loop(tokens, i + 1, taken)
    ELSE [parameters |-> parameters, i |-> i]

\* StructuralParser._extract_parameters: the parameters and the returned index
extract_parameters(tokens, start_index) ==
    LET r == extract_parameters_loop(tokens, start_index, <<>>) IN
    [parameters |-> r.parameters, index |-> r.i - 1]

\* the while loop of _extract_group_content
RECURSIVE extract_group_loop(_, _, _, _)
extract_group_loop(tokens, i, depth, content) ==
    IF i <= Len(tokens) /\ depth > 0
    THEN LET d == CASE tokens[i].type = "GROUP_START" -> depth + 1
                    [] tokens[i].type = "GROUP_END" -> depth - 1
                    [] OTHER -> depth
         IN  extract_group_loop(tokens, i + 1, d,
                                IF d > 0 THEN Append(content, tokens[i]) ELSE content)
    ELSE [content |-> content, i |-> i]

\* StructuralParser._extract_group_content
extract_group_content(tokens, start_index) ==
    LET r == extract_group_loop(tokens, start_index + 1, 1, <<>>) IN
    [content |-> r.content, end_index |-> r.i - 1]

\* StructuralParser.parse, from token i on: the structure, or Hung
RECURSIVE StructuralParser_parse(_, _, _, _)
StructuralParser_parse(tokens, config, i, structure) ==
    IF i > Len(tokens) THEN structure
    ELSE
    LET token == tokens[i] IN
    CASE token.type = "SUBJECT" ->
            StructuralParser_parse(tokens, config, i + 1,
                [structure EXCEPT !.subjects = Append(@, [type |-> token.value])])
      [] token.type = "CONDITION" ->
            LET r == extract_parameters(tokens, i + 1) IN
            IF r.index = i THEN Hung
            ELSE StructuralParser_parse(tokens, config, r.index,
                    [structure EXCEPT !.conditions =
                        Append(@, [type |-> token.value, parameters |-> r.parameters])])
      [] token.type = "ACTION" ->
            LET r == extract_parameters(tokens, i + 1) IN
            IF r.index = i THEN Hung
            ELSE StructuralParser_parse(tokens, config, r.index,
                    [structure EXCEPT !.actions =
                        Append(@, [type |-> token.value, parameters |-> r.parameters])])
      [] token.type = "OPERATOR" ->
            StructuralParser_parse(tokens, config, i + 1,
                [structure EXCEPT
                    !.operators = Append(@, [type |-> token.value, position |-> i - 1]),
                    !.negation = @ \/ token.value \in config.negation_words])
      [] token.type = "GROUP_START" ->
            LET g == extract_group_content(tokens, i)
                group_structure ==
                    IF g.content # <<>>
                    THEN StructuralParser_parse(g.content, config, 1, EmptyStructure)
                    ELSE EmptyStructure
            IN  IF IsHung(group_structure) \/ g.end_index = i THEN Hung
                ELSE StructuralParser_parse(tokens, config, g.end_index,
                        IF g.content # <<>>
                        THEN [structure EXCEPT !.groups = Append(@, group_structure)]
                        ELSE structure)
      [] token.type = "VALUE" /\ token.original # "" ->
            StructuralParser_parse(tokens, config, i + 1,
                [structure EXCEPT !.values = dict_set(@, token.original, token.value)])
      [] OTHER -> StructuralParser_parse(tokens, config, i + 1, structure)

\* ParsedLaw; structure {} is EmptyDict
EmptyDict == [dict |-> "empty"]

ParsedLaw(raw_text, tokens, structure, is_valid, errors) ==
    [raw_text |-> raw_text, tokens |-> tokens, structure |-> structure,
     is_valid |-> is_valid, errors |-> errors]

\* UniversalLawParser._validate_structure: the errors it appends
validate_structure(structure) ==
    (IF structure.subjects = <<>> THEN <<"No subjects found in law">> ELSE <<>>)
    \o (IF structure.actions = <<>> /\ structure.conditions = <<>>
        THEN <<"No actions or conditions found in law">> ELSE <<>>)

\* UniversalLawParser.parse: the ParsedLaw returned, or Hung
UniversalLawParser_parse(law_text, config) ==
    LET tokens == tokenize(law_text, config) IN
    IF tokens = <<>>
    THEN ParsedLaw(law_text, <<>>, EmptyDict, FALSE, <<"Empty or invalid law text">>)
    ELSE LET structure == StructuralParser_parse(tokens, config, 1, EmptyStructure) IN
         IF IsHung(structure) THEN Hung
         ELSE LET errors == validate_structure(structure) IN
              ParsedLaw(law_text, tokens, structure, errors = <<>>, errors)

-----------------------------------------------------------------------------
(* LawEnforcer.  The rule index self.rules is a dict, kept as the sequence  *)
(* of its items [key, value] in insertion order.  A condition's value is    *)
(* tagged with its Python type; a user is PyNone or a record of the User     *)
(* columns the enforcer reads.                                              *)

PyBool(b) == [bool |-> b]

PyInt(n) == [int |-> n]

PyStr(s) == [text |-> s]

dict_get(d, key, default) ==
    IF \E j \in 1 .. Len(d) : d[j].key = key
    THEN d[CHOOSE j \in 1 .. Len(d) : d[j].key = key].value
    ELSE default

\* LawEnforcer(config)
LawEnforcer(config) == [rules |-> <<>>, config |-> config]

ActionRule(action_name, subject_type, conditions, allow, priority, metadata) ==
    [action_name |-> action_name, subject_type |-> subject_type,
     conditions |-> conditions, allow |-> allow, priority |-> priority,
     metadata |-> metadata]

\* LawEnforcer._normalize_action_name; the fallback lower-cases the keyword
\* (the words here are lower-case already) and puts '_' for each blank
normalize_action_name(action, config) ==
    IF \E m \in config.action_mappings : m[1] = action
    THEN (CHOOSE m \in config.action_mappings : m[1] = action)[2]
    ELSE [j \in 1 .. Len(action) |-> IF action[j] = " " THEN "_" ELSE action[j]]

\* needle in text, for two Python strings
contains(needle, text) ==
    \E j \in 0 .. Len(text) - Len(needle) :
        SubSeq(text, j + 1, j + Len(needle)) = needle

\* int(text): a ValueError is PyNone
int(text) ==
    IF Len(text) = 1 /\ text[1] = "5" THEN PyInt(5)
    ELSE IF Len(text) = 1 /\ text[1] = "50" THEN PyInt(50)
    ELSE PyNone

\* the rating conditions one condition of the structure gives
rating_conditions(type, parameters) ==
    LET values == SelectSeq(parameters,
                            LAMBDA p : p.type = "value" /\ int(p.value) # PyNone)
    IN  [j \in 1 .. Len(values) |-> [type |-> type, value |-> int(values[j].value)]]

RECURSIVE conditions_of(_)
conditions_of(conditions) ==
    IF conditions = <<>> THEN <<>>
    ELSE LET condition == Head(conditions)
             cond_type == condition.type
             params == condition.parameters
         IN  (IF cond_type = <<"chlen", " ", "partii">>
              THEN <<[type |-> "has_party", value |-> PyBool(TRUE)]>>
              ELSE IF contains(<<"reitingom", " ", ">">>, cond_type) /\ params # <<>>
              THEN rating_conditions("rating_gt", params)
              ELSE IF contains(<<"reitingom", " ", "<">>, cond_type) /\ params # <<>>
              THEN rating_conditions("rating_lt", params)
              ELSE IF cond_type = <<"imeet", " ", "pravo">>
              THEN <<[type |-> "has_base_permission", value |-> PyBool(TRUE)]>>
              ELSE <<>>)
             \o conditions_of(Tail(conditions))

RECURSIVE conditions_of_values(_)
conditions_of_values(values) ==
    IF values = <<>> THEN <<>>
    ELSE LET placeholder == Head(values).key
             value == Head(values).value
         IN  (CASE placeholder = "[POLZOVATEL]" ->
                     <<[type |-> "username_equals", value |-> PyStr(value)]>>
                [] placeholder = "[PARTIYA]" ->
                     <<[type |-> "party_name_equals", value |-> PyStr(value)]>>
                [] placeholder = "[CHISLO]" /\ int(value) # PyNone ->
                     <<[type |-> "number_value", value |-> int(value)]>>
                [] OTHER -> <<>>)
             \o conditions_of_values(Tail(values))

\* LawEnforcer._extract_conditions
extract_conditions(structure) ==
    conditions_of(structure.conditions) \o conditions_of_values(structure.values)

\* a variant of _convert_to_rules in which a negated law is given priority 1
\* and is allowed all the same
convert_to_rules_allowing(parsed_law, law_name, config) ==
    LET structure == parsed_law.structure
        subject == IF structure.subjects # <<>> THEN structure.subjects[1].type
                   ELSE <<>>
    IN  [j \in 1 .. Len(structure.actions) |->
            ActionRule(normalize_action_name(structure.actions[j].type, config),
                       subject, extract_conditions(structure), TRUE,
                       IF structure.negation THEN 1 ELSE 0,
                       [source_law |-> law_name])]

\* LawEnforcer._convert_to_rules
convert_to_rules(parsed_law, law_name, config) ==
    LET structure == parsed_law.structure
        has_negation == structure.negation
        subject == IF structure.subjects # <<>> THEN structure.subjects[1].type
                   ELSE <<>>
    IN  [j \in 1 .. Len(structure.actions) |->
            ActionRule(normalize_action_name(structure.actions[j].type, config),
                       subject, extract_conditions(structure), ~has_negation,
                       IF has_negation THEN 1 ELSE 0, [source_law |-> law_name])]

\* a variant of sort_by_priority that leaves the list as it is
unsorted(list, sorted) == list

\* a variant of sort_by_priority, descending, that puts a rule before the
\* rules of its own priority
RECURSIVE sort_newest_first(_, _)
sort_newest_first(list, sorted) ==
    IF list = <<>> THEN sorted
    ELSE LET r == Head(list) IN
         sort_newest_first(Tail(list),
                           SelectSeq(sorted, LAMBDA x : x.priority > r.priority)
                           \o <<r>>
                           \o SelectSeq(sorted, LAMBDA x : x.priority <= r.priority))

\* list.sort(key=lambda r: r.priority, reverse=True): descending and stable
RECURSIVE sort_by_priority(_, _)
sort_by_priority(list, sorted) ==
    IF list = <<>> THEN sorted
    ELSE LET r == Head(list) IN
         sort_by_priority(Tail(list),
                          SelectSeq(sorted, LAMBDA x : x.priority >= r.priority)
                          \o <<r>>
                          \o SelectSeq(sorted, LAMBDA x : x.priority < r.priority))

\* the loop of add_law over the rules of one law
RECURSIVE index_rules(_, _)
index_rules(rules, new_rules) ==
    IF new_rules = <<>> THEN rules
    ELSE LET rule == Head(new_rules)
             list == Append(dict_get(rules, rule.action_name, <<>>), rule)
         IN  index_rules(dict_set(rules, rule.action_name, sort_by_priority(list, <<>>)),
                         Tail(new_rules))

\* how a call of the enforcer ends, and the index it leaves
Ended(status, rules) == [status |-> status, rules |-> rules]

\* a variant of add_law that empties the index when it is given a law whose
\* rules are indexed already
add_law_toggle(enforcer, law_text, law_name) ==
    LET parsed == UniversalLawParser_parse(law_text, enforcer.config)
        rules == convert_to_rules(parsed, law_name, enforcer.config)
    IN  IF IsHung(parsed) THEN Ended("hung", enforcer.rules)
        ELSE IF ~parsed.is_valid THEN Ended("ValueError", enforcer.rules)
        ELSE IF \E j \in 1 .. Len(rules) : \E k \in 1 .. Len(enforcer.rules) :
                    \E m \in 1 .. Len(enforcer.rules[k].value) :
                        enforcer.rules[k].value[m] = rules[j]
        THEN Ended("returned", <<>>)
        ELSE Ended("returned", index_rules(enforcer.rules, rules))

\* LawEnforcer.add_law
add_law(enforcer, law_text, law_name) ==
    LET parsed == UniversalLawParser_parse(law_text, enforcer.config) IN
    IF IsHung(parsed) THEN Ended("hung", enforcer.rules)
    ELSE IF ~parsed.is_valid THEN Ended("ValueError", enforcer.rules)
    ELSE Ended("returned",
               index_rules(enforcer.rules,
                           convert_to_rules(parsed, law_name, enforcer.config)))

\* the loop of load_laws_from_db over the rows the query returned: an
\* exception of add_law is printed and the loop goes on
RECURSIVE load_laws(_, _)
load_laws(enforcer, rows) ==
    IF rows = <<>> THEN Ended("returned", enforcer.rules)
    ELSE LET added == add_law(enforcer, Head(rows).text, Head(rows).name) IN
         IF added.status = "hung" THEN added
         ELSE load_laws([enforcer EXCEPT !.rules = added.rules], Tail(rows))

\* bool(x) of an optional integer
bool(x) == x # PyNone /\ x.int # 0

\* LawEnforcer._check_condition; User has no rating column, so
\* getattr(user, 'rating', 0) is 0
check_condition(user, condition) ==
    LET cond_type == condition.type
        value == condition.value
    IN  CASE cond_type = "has_party" ->
                (IF user = PyNone THEN FALSE ELSE bool(user.party_id)) = value.bool
          [] cond_type = "rating_gt" -> 0 > value.int
          [] cond_type = "rating_lt" -> 0 < value.int
          [] cond_type = "username_equals" ->
                (IF user = PyNone THEN <<>> ELSE user.username) = value.text
          [] cond_type = "party_name_equals" ->
                /\ user # PyNone
                /\ user.party # PyNone
                /\ user.party.name = value.text
          [] OTHER -> TRUE

\* LawEnforcer._check_rule
check_rule(user, rule) ==
    /\ rule.subject_type = <<"Polzovatel">> => user # PyNone
    /\ rule.subject_type = <<"Pravitel">> => (user # PyNone /\ user.admin)
    /\ \A j \in 1 .. Len(rule.conditions) : check_condition(user, rule.conditions[j])

\* a variant of first_match: some matching rule allows
any_match_allows(user, rules) ==
    \E j \in 1 .. Len(rules) : check_rule(user, rules[j]) /\ rules[j].allow

\* the for loop of check_permission
RECURSIVE first_match(_, _)
first_match(user, rules) ==
    IF rules = <<>> THEN FALSE
    ELSE IF check_rule(user, Head(rules)) THEN Head(rules).allow
    ELSE first_match(user, Tail(rules))

\* LawEnforcer.check_permission on the index 'index'
check_permission(index, user, action_name) ==
    LET rules == dict_get(index, action_name, <<>>) IN
    IF rules = <<>> THEN FALSE ELSE first_match(user, rules)

-----------------------------------------------------------------------------
(* Bounds and input sets *)

MaxLaws == 2

MaxVoters == 3

MaxRows == 1

LawIds == 1 .. MaxLaws

Users == 1 .. MaxVoters

\* User.admin
is_admin(user) == user = 1

\* LawConfig: no operation of the engine reads these
MAX_EXECUTION_TIME == 10

ERROR_THRESHOLD == 5

NoLaw == [law |-> "none"]

\* no evaluation is in progress
Idle == [pc |-> "idle"]

Init ==
    /\ laws = [i \in LawIds |-> NoLaw]
    /\ active_laws = <<>>
    /\ law_enforcer = LawEnforcer(create_default)
    /\ evaluation = Idle
    /\ last = [op |-> "none"]

-----------------------------------------------------------------------------
(* The executor used on its own: validate_code as the editor's linter,      *)
(* execute_law called directly, and the test_law endpoint.                  *)

ValidateCode ==
    \E code \in Scripts :
        /\ last' = [op |-> "validate_code", code |-> code, ret |-> validate_code(code)]
        /\ UNCHANGED <<laws, active_laws, law_enforcer, evaluation>>

ExecuteLaw ==
    \E code \in Scripts, context \in Contexts :
        /\ last' = [op |-> "execute_law", code |-> code, context |-> context,
                    out |-> execute_law(code, context)]
        /\ UNCHANGED <<laws, active_laws, law_enforcer, evaluation>>

\* views/laws.py test_law: the endpoint validates, then runs the executor on
\* a context of its own; the response is the jsonified result
test_law(code, user) ==
    LET v == validate_code(code) IN
    IF Raises(v) THEN Outcome("raised", v, PyNone, FALSE)
    ELSE IF ~v.is_valid
    THEN Outcome("returned", ExecutionResult(FALSE, v.msg, PyNone), PyNone, FALSE)
    ELSE execute_law(code, LawContext(user, "test", [test |-> TRUE]))

TestLaw(codes) ==
    \E code \in codes, user \in Users :
        LET out == test_law(code, user) IN
        /\ last' = [op |-> "test_law", code |-> code, status |-> out.status,
                    response |-> out.ret, compiled |-> out.compiled]
        /\ UNCHANGED <<laws, active_laws, law_enforcer, evaluation>>

NextExec == ValidateCode \/ ExecuteLaw \/ TestLaw(Scripts)

SpecExec == Init /\ [][NextExec]_vars

-----------------------------------------------------------------------------
(* The manager used through its own interface: register_law with trigger    *)
(* objects, trigger_laws.                                                   *)

MgrScripts == {S_allow, S_import, S_mutate_fail, S_loop}

\* a condition_func that raises: should_trigger answers False
always_raises == [raises |-> TRUE, value |-> FALSE]

on_vote == <<ActionTrigger(<<"vote">>)>>

on_time == <<ConditionalTrigger(always_raises), TimeTrigger("daily")>>

\* the law_data register_law is called with
MgrLawData ==
    {LawData(code, triggers, TRUE) : code \in MgrScripts, triggers \in {on_vote, on_time}}
    \cup {LawData(code, on_vote, FALSE) : code \in {S_allow, S_loop}}

RegisterLaw ==
    \E law_id \in LawIds, law_data \in MgrLawData :
        /\ active_laws' = register_law(active_laws, law_id, law_data)
        /\ last' = [op |-> "register_law"]
        /\ UNCHANGED <<laws, law_enforcer, evaluation>>

TriggerLaws ==
    \E context \in Contexts :
        /\ last' = [op |-> "trigger_laws", context |-> context,
                    batch |-> trigger_laws(active_laws, context)]
        /\ UNCHANGED <<laws, active_laws, law_enforcer, evaluation>>

NextMgr == RegisterLaw \/ TriggerLaws \/ TestLaw(MgrScripts)

SpecMgr == Init /\ [][NextMgr]_vars

-----------------------------------------------------------------------------
(* The manager watched for failures: 'last' also carries, for every law,    *)
(* how many of its executions in a row have failed since it was registered  *)
(* last (failed), a count the observer keeps; LawManager keeps none.        *)

ErrLawData == {LawData(code, on_vote, TRUE) : code \in {S_allow, S_import, S_mutate_fail}}

NeverFailed == [law_id \in LawIds |-> 0]

\* the results of a batch that belong to one law
ResultsOf(results, law_id) == SelectSeq(results, LAMBDA r : r.law_id = law_id)

\* the count after a batch: a failed execution adds one, a successful one
\* starts the count again
failed_after(failed, results) ==
    [law_id \in LawIds |->
        LET mine == ResultsOf(results, law_id) IN
        IF mine = <<>> THEN failed[law_id]
        ELSE IF mine[Len(mine)].success THEN 0
        ELSE failed[law_id] + 1]

InitErr ==
    /\ laws = [i \in LawIds |-> NoLaw]
    /\ active_laws = <<>>
    /\ law_enforcer = LawEnforcer(create_default)
    /\ evaluation = Idle
    /\ last = [op |-> "none", failed |-> NeverFailed]

\* register_law, which is how a law is activated
RegisterLawWatched ==
    \E law_id \in LawIds, law_data \in ErrLawData :
        /\ active_laws' = register_law(active_laws, law_id, law_data)
        /\ last' = [op |-> "register_law",
                    failed |-> [last.failed EXCEPT ![law_id] = 0]]
        /\ UNCHANGED <<laws, law_enforcer, evaluation>>

TriggerLawsWatched ==
    \E context \in Contexts :
        LET batch == trigger_laws(active_laws, context) IN
        /\ \A law_id \in LawIds : last.failed[law_id] <= ERROR_THRESHOLD
        /\ last' = [op |-> "trigger_laws", context |-> context, batch |-> batch,
                    failed_before |-> last.failed,
                    failed |-> failed_after(last.failed, batch.results)]
        /\ UNCHANGED <<laws, active_laws, law_enforcer, evaluation>>

NextErr == RegisterLawWatched \/ TriggerLawsWatched

SpecErr == InitErr /\ [][NextErr]_vars

-----------------------------------------------------------------------------
(* The application: the handlers of views/laws.py and the start-up load,    *)
(* acting on the persisted Law rows and on the manager.                     *)

\* json.dumps / json.loads of a list of trigger specs
json_dumps(value) == [json |-> value]

json_loads(text) == text.json

\* Law.triggers (getter): [] when triggers_json does not load
Law_triggers(law) ==
    IF "json" \in DOMAIN law.triggers_json THEN json_loads(law.triggers_json)
    ELSE <<>>

\* Law.can_execute
can_execute(law) == law.active /\ law.validation_status = "approved"

AppScripts == {S_allow, S_import}

\* form.trigger_actions.data, already split on ',' and stripped; <<>> is ''
TriggerActionInputs == {<<>>, <<"vote">>}

ScheduleInputs == {"", "daily"}

VoteChoices == {"for", "against", "abstain"}

ValidationChoices == {"approved", "rejected", "needs_revision"}

\* the ids of the Law rows the handlers can be asked about
RowIds == 1 .. MaxRows

Exists(law_id) == laws[law_id] # NoLaw

\* the row create_law builds from the form; Law(...) is taken to accept the
\* keyword arguments the handler passes
new_law(code, auto_activate, trigger_actions, trigger_schedule) ==
    LET v == validate_code(code)
        triggers ==
            (IF trigger_actions # <<>>
             THEN <<[type |-> "action", actions |-> trigger_actions]>> ELSE <<>>)
            \o (IF trigger_schedule # ""
                THEN <<[type |-> "time", schedule |-> trigger_schedule]>> ELSE <<>>)
    IN  [text |-> code,
         validation_status |-> IF v.is_valid THEN "approved" ELSE "rejected",
         validation_error |-> IF v.is_valid THEN PyNone ELSE v.msg,
         active |-> auto_activate /\ v.is_valid,
         triggers_json |-> json_dumps(triggers),
         votes |-> [u \in Users |-> "none"]]

\* the law_data the handlers pass to register_law
app_law_data(law) == LawData(law.text, Law_triggers(law), TRUE)

CreateLaw ==
    \E code \in AppScripts, auto_activate \in BOOLEAN,
       trigger_actions \in TriggerActionInputs, trigger_schedule \in ScheduleInputs :
        /\ \E i \in RowIds : ~Exists(i)
        /\ ~Raises(validate_code(code))
        /\ LET law_id == CHOOSE i \in RowIds :
                             ~Exists(i) /\ \A j \in RowIds : j < i => Exists(j)
               law == new_law(code, auto_activate, trigger_actions, trigger_schedule)
           IN  /\ laws' = [laws EXCEPT ![law_id] = law]
               /\ active_laws' =
                    IF validate_code(code).is_valid /\ auto_activate
                    THEN register_law(active_laws, law_id, app_law_data(law))
                    ELSE active_laws
        /\ last' = [op |-> "create_law"]
        /\ UNCHANGED <<law_enforcer, evaluation>>

\* the number of LawVote rows of a law, and of those that are 'for'
total_votes(votes) == Cardinality({u \in Users : votes[u] # "none"})

for_votes(votes) == Cardinality({u \in Users : votes[u] = "for"})

VoteLaw ==
    \E law_id \in RowIds, user \in Users, vote \in VoteChoices :
        /\ Exists(law_id)
        /\ laws[law_id].votes[user] = "none"
        /\ LET law == laws[law_id]
               votes == [law.votes EXCEPT ![user] = vote]
               activate == /\ total_votes(votes) >= 3
                           /\ 2 * for_votes(votes) > total_votes(votes)
                           /\ ~law.active
               voted == [law EXCEPT !.votes = votes]
           IN  IF activate
               THEN /\ laws' = [laws EXCEPT ![law_id] = [voted EXCEPT !.active = TRUE]]
                    /\ active_laws' = register_law(active_laws, law_id, app_law_data(law))
               ELSE /\ laws' = [laws EXCEPT ![law_id] = voted]
                    /\ UNCHANGED active_laws
        /\ last' = [op |-> "vote_law"]
        /\ UNCHANGED <<law_enforcer, evaluation>>

ToggleActive ==
    \E law_id \in RowIds, user \in Users :
        /\ is_admin(user)
        /\ Exists(law_id)
        /\ laws[law_id].validation_status = "approved"
        /\ LET law == [laws[law_id] EXCEPT !.active = ~@] IN
           /\ laws' = [laws EXCEPT ![law_id] = law]
           /\ active_laws' = IF law.active
                             THEN register_law(active_laws, law_id, app_law_data(law))
                             ELSE pop(active_laws, law_id)
        /\ last' = [op |-> "toggle_active"]
        /\ UNCHANGED <<law_enforcer, evaluation>>

ValidateLaw ==
    \E law_id \in RowIds, user \in Users, validation_status \in ValidationChoices :
        /\ is_admin(user)
        /\ Exists(law_id)
        /\ laws' = [laws EXCEPT ![law_id].validation_status = validation_status]
        /\ last' = [op |-> "validate_law"]
        /\ UNCHANGED <<active_laws, law_enforcer, evaluation>>

\* init_law_system: a new manager, loaded with the persisted active laws
RECURSIVE load_active(_, _)
load_active(table, law_id) ==
    IF law_id > MaxRows THEN table
    ELSE IF Exists(law_id) /\ laws[law_id].active
    THEN load_active(register_law(table, law_id,
                                  LawData(laws[law_id].text, <<>>, TRUE)),
                     law_id + 1)
    ELSE load_active(table, law_id + 1)

InitLawSystem ==
    /\ active_laws' = load_active(<<>>, 1)
    /\ last' = [op |-> "init_law_system"]
    /\ UNCHANGED <<laws, law_enforcer, evaluation>>

Next ==
    \/ CreateLaw
    \/ VoteLaw
    \/ ToggleActive
    \/ ValidateLaw
    \/ InitLawSystem
    \/ TriggerLaws
    \/ TestLaw(AppScripts)

Spec == Init /\ [][Next]_vars

-----------------------------------------------------------------------------
(* The rule enforcer used through its own interface: an enforcer built on   *)
(* one of two configurations; the parser called directly (SpecParse); laws  *)
(* saved as rows, add_law, the load from the rows and check_permission      *)
(* (SpecEnf).                                                               *)

MaxRules == 4

MaxTextLen == 3

Atoms == {"Polzovatel", "golosovat", "chlen", "partii", "ne", "5", " ", ";", "NL", "("}

\* every text of at most MaxTextLen atoms
ShortTexts == UNION {[1 .. n -> Atoms] : n \in 0 .. MaxTextLen}

T_phrase == <<"Polzovatel", " ", "chlen", " ", "partii", " ", "golosovat">>

T_delimited == <<"Polzovatel", ",", " ", "chlen", " ", "partii", ",", " ", "golosovat">>

T_delimiters == <<";", ",", ".">>

\* one keyword on each line, an action followed by a number
L_allow == <<"Polzovatel", "NL", "golosovat", "NL", "5">>

L_deny == <<"Polzovatel", "NL", "ne", "NL", "golosovat", "NL", "5">>

L_member == <<"Polzovatel", "NL", "chlen", " ", "partii", "NL", "5", "NL",
              "golosovat", "NL", "5">>

L_ruler == <<"Pravitel", "NL", "golosovat", "NL", "5">>

L_ruler_deny == <<"Pravitel", "NL", "golosovat", "NL", "ne">>

L_named == <<"Administrator", "NL", "golosovat", "NL", "[POLZOVATEL]:", "bob">>

L_laws == <<"Polzovatel", "NL", "sozdavat", " ", "zakony", "NL", "5">>

LineTexts == {L_allow, L_deny, L_member, L_ruler, L_ruler_deny, L_named, L_laws}

LawTexts == ShortTexts \cup {T_phrase, T_delimited, T_delimiters} \cup LineTexts

\* the texts given to add_law
EnforcerTexts == {L_allow, L_deny, L_member, L_ruler_deny, L_named, T_delimited}

\* the texts saved in rows
RowTexts == {L_allow, L_deny, T_delimited}

LawNames == [i \in LawIds |-> IF i = 1 THEN "law1" ELSE "law2"]

Configs == {create_default, line_config}

\* a User row as the enforcer reads it
User(username, admin, party_id, party) ==
    [username |-> username, admin |-> admin, party_id |-> party_id, party |-> party]

\* the subjects of check_permission: nobody, a plain user, a party member,
\* an administrator
Subjects ==
    {PyNone,
     User(<<"bob">>, FALSE, PyNone, PyNone),
     User(<<"eve">>, FALSE, PyInt(1), [name |-> <<"reds">>]),
     User(<<"root">>, TRUE, PyNone, PyNone)}

ActionNames == {<<"vote">>, <<"create_law">>}

InitEnf ==
    /\ laws = [i \in LawIds |-> NoLaw]
    /\ active_laws = <<>>
    /\ law_enforcer \in {LawEnforcer(config) : config \in Configs}
    /\ evaluation = Idle
    /\ last = [op |-> "none"]

\* the lists of an index are within the bound
WithinBound(index) == \A j \in 1 .. Len(index) : Len(index[j].value) <= MaxRules

Parse ==
    \E law_text \in LawTexts :
        /\ last' = [op |-> "parse", law_text |-> law_text,
                    ret |-> UniversalLawParser_parse(law_text, law_enforcer.config)]
        /\ UNCHANGED <<laws, active_laws, law_enforcer, evaluation>>

\* a Law row is committed (views/laws.py create_law saves the submitted text
\* whatever it is); the name is the row's
SaveLaw ==
    \E law_id \in LawIds, text \in RowTexts :
        /\ laws[law_id] = NoLaw
        /\ \A j \in LawIds : j < law_id => laws[j] # NoLaw
        /\ laws' = [laws EXCEPT ![law_id] = [name |-> LawNames[law_id], text |-> text]]
        /\ last' = [op |-> "save_law"]
        /\ UNCHANGED <<active_laws, law_enforcer, evaluation>>

\* add_law(law_text), law_name left at its default
AddLaw ==
    \E law_text \in EnforcerTexts :
        LET ended == add_law(law_enforcer, law_text, "") IN
        /\ WithinBound(ended.rules)
        /\ law_enforcer' = [law_enforcer EXCEPT !.rules = ended.rules]
        /\ last' = [op |-> "add_law", law_text |-> law_text, status |-> ended.status]
        /\ UNCHANGED <<laws, active_laws, evaluation>>

\* db_session.query(Law).all(): the rows in id order
RECURSIVE rows_from(_, _)
rows_from(table, law_id) ==
    IF law_id > MaxLaws THEN <<>>
    ELSE (IF table[law_id] # NoLaw THEN <<table[law_id]>> ELSE <<>>)
         \o rows_from(table, law_id + 1)

LoadLawsFromDb ==
    LET rows == rows_from(laws, 1)
        ended == load_laws(law_enforcer, rows)
    IN  /\ WithinBound(ended.rules)
        /\ law_enforcer' = [law_enforcer EXCEPT !.rules = ended.rules]
        /\ last' = [op |-> "load_laws_from_db", rows |-> rows,
                    status |-> ended.status, before |-> law_enforcer.rules,
                    reload |-> last.op = "load_laws_from_db" /\ last.status = "returned"
                               /\ last.rows = rows]
        /\ UNCHANGED <<laws, active_laws, evaluation>>

CheckPermission ==
    \E user \in Subjects, action_name \in ActionNames :
        /\ last' = [op |-> "check_permission", user |-> user,
                    action_name |-> action_name,
                    ret |-> check_permission(law_enforcer.rules, user, action_name)]
        /\ UNCHANGED <<laws, active_laws, law_enforcer, evaluation>>

NextParse == Parse

SpecParse == InitEnf /\ [][NextParse]_vars

NextEnf == SaveLaw \/ AddLaw \/ LoadLawsFromDb \/ CheckPermission

SpecEnf == InitEnf /\ [][NextEnf]_vars

-----------------------------------------------------------------------------
(* Evaluations that overlap registrations: requests are served by threads   *)
(* of one process, so the loop of trigger_laws or of check_permission on    *)
(* one thread is interleaved, iteration by iteration, with register_law,    *)
(* the pop of toggle_active and add_law on another.  'evaluation' is the    *)
(* frame of the loop in progress; i counts the entries its iterator has      *)
(* passed.  The dict iterator of trigger_laws remembers the size of the     *)
(* dict (used) and how many entries it has still to give (left): it raises  *)
(* RuntimeError when the size has changed, and when an entry comes up after *)
(* it has given them all.  The entries array of the dict is taken not to be *)
(* resized during the loop.                                                 *)

ConcLawData == {LawData(code, on_vote, TRUE) : code \in {S_allow, S_deny}}

ConcContexts == {context \in Contexts : context.action = "vote"}

\* a plain user and an administrator
ConcSubjects == {user \in Subjects \ {PyNone} : user.party = PyNone}

ConcTexts == {L_allow, L_ruler_deny}

MaxConcRules == 2

RegisterLawOf(law_datas) ==
    \E law_id \in LawIds, law_data \in law_datas :
        /\ active_laws' = register_law(active_laws, law_id, law_data)
        /\ last' = [op |-> "register_law"]
        /\ UNCHANGED <<laws, law_enforcer, evaluation>>

\* current_app.law_manager.active_laws.pop(law.id, None); a popped entry
\* leaves a hole in the entries array, so an iterator that has passed it
\* has one entry less behind it
PopLaw ==
    \E law_id \in LawIds :
        /\ law_id \in Keys(active_laws)
        /\ active_laws' = pop(active_laws, law_id)
        /\ evaluation' =
             IF /\ evaluation.pc = "trigger_laws"
                /\ \E j \in 1 .. evaluation.i : active_laws[j].law_id = law_id
             THEN [evaluation EXCEPT !.i = @ - 1]
             ELSE evaluation
        /\ last' = [op |-> "pop"]
        /\ UNCHANGED <<laws, law_enforcer>>

\* trigger_laws: results = [] and the iterator of self.active_laws.items()
BeginTriggerLaws ==
    \E context \in ConcContexts :
        /\ evaluation = Idle
        /\ evaluation' = [pc |-> "trigger_laws", context |-> context, i |-> 0,
                          used |-> Len(active_laws), left |-> Len(active_laws),
                          results |-> <<>>,
                          began |-> [table |-> active_laws, context |-> context]]
        /\ last' = [op |-> "trigger_laws_begins"]
        /\ UNCHANGED <<laws, active_laws, law_enforcer>>

\* one iteration of the for loop of trigger_laws, or its end
StepTriggerLaws ==
    /\ evaluation.pc = "trigger_laws"
    /\ IF Len(active_laws) # evaluation.used
       THEN /\ evaluation' = Idle
            /\ last' = [op |-> "trigger_laws_ends", status |-> "RuntimeError",
                        results |-> evaluation.results, began |-> evaluation.began]
       ELSE IF evaluation.i >= Len(active_laws)
       THEN /\ evaluation' = Idle
            /\ last' = [op |-> "trigger_laws_ends", status |-> "returned",
                        results |-> evaluation.results, began |-> evaluation.began]
       ELSE IF evaluation.left = 0
       THEN /\ evaluation' = Idle
            /\ last' = [op |-> "trigger_laws_ends", status |-> "RuntimeError",
                        results |-> evaluation.results, began |-> evaluation.began]
       ELSE LET turn == trigger_loop(<<active_laws[evaluation.i + 1]>>,
                                     evaluation.context, evaluation.results, <<>>)
            IN  IF turn.status # "returned"
                THEN /\ evaluation' = Idle
                     /\ last' = [op |-> "trigger_laws_ends", status |-> turn.status,
                                 results |-> turn.results, began |-> evaluation.began]
                ELSE /\ evaluation' = [evaluation EXCEPT !.i = @ + 1,
                                                         !.left = @ - 1,
                                                         !.context = turn.context,
                                                         !.results = turn.results]
                     /\ last' = [op |-> "trigger_laws_step"]
    /\ UNCHANGED <<laws, active_laws, law_enforcer>>

\* check_permission: rules = self.rules.get(action_name, []), and the
\* answer at once when there are none
BeginCheckPermission ==
    \E user \in ConcSubjects, action_name \in ActionNames :
        /\ evaluation = Idle
        /\ IF dict_get(law_enforcer.rules, action_name, <<>>) = <<>>
           THEN /\ last' = [op |-> "check_permission_ends", ret |-> FALSE,
                            user |-> user, action_name |-> action_name,
                            began |-> law_enforcer.rules]
                /\ UNCHANGED evaluation
           ELSE /\ evaluation' = [pc |-> "check_permission", user |-> user,
                                  action_name |-> action_name, i |-> 0,
                                  began |-> law_enforcer.rules]
                /\ last' = [op |-> "check_permission_begins"]
        /\ UNCHANGED <<laws, active_laws, law_enforcer>>

\* one iteration of the for loop of check_permission over the list that
\* add_law appends to and sorts in place, or its end
StepCheckPermission ==
    /\ evaluation.pc = "check_permission"
    /\ LET rules == dict_get(law_enforcer.rules, evaluation.action_name, <<>>)
           ends(ret) ==
               /\ evaluation' = Idle
               /\ last' = [op |-> "check_permission_ends", ret |-> ret,
                           user |-> evaluation.user,
                           action_name |-> evaluation.action_name,
                           began |-> evaluation.began]
       IN  IF evaluation.i >= Len(rules) THEN ends(FALSE)
           ELSE IF check_rule(evaluation.user, rules[evaluation.i + 1])
           THEN ends(rules[evaluation.i + 1].allow)
           ELSE /\ evaluation' = [evaluation EXCEPT !.i = @ + 1]
                /\ last' = [op |-> "check_permission_step"]
    /\ UNCHANGED <<laws, active_laws, law_enforcer>>

AddLawOf(law_texts) ==
    \E law_text \in law_texts :
        LET ended == add_law(law_enforcer, law_text, "") IN
        /\ \A j \in 1 .. Len(ended.rules) : Len(ended.rules[j].value) <= MaxConcRules
        /\ law_enforcer' = [law_enforcer EXCEPT !.rules = ended.rules]
        /\ last' = [op |-> "add_law", law_text |-> law_text, status |-> ended.status]
        /\ UNCHANGED <<laws, active_laws, evaluation>>

NextConc ==
    \/ RegisterLawOf(ConcLawData)
    \/ PopLaw
    \/ BeginTriggerLaws
    \/ StepTriggerLaws
    \/ AddLawOf(ConcTexts)
    \/ BeginCheckPermission
    \/ StepCheckPermission

SpecConc == InitEnf /\ [][NextConc]_vars

-----------------------------------------------------------------------------
(* Checks that overlap a change of the rule index: add_law appends a rule   *)
(* and then sorts the list, load_laws_from_db calls add_law row after row,  *)
(* and check_permission on another thread reads self.rules at any point in  *)
(* between.  'evaluation' is the frame of the writer in progress: the index *)
(* it began with (began) and the index it leaves when run alone (after).    *)

LoadTexts == {L_allow, L_deny}

\* add_law up to the loop over the rules: the law is parsed and compiled
BeginAddLaw ==
    \E law_text \in LoadTexts :
        LET ended == add_law(law_enforcer, law_text, "")
            parsed == UniversalLawParser_parse(law_text, law_enforcer.config)
        IN  /\ evaluation = Idle
            /\ WithinBound(ended.rules)
            /\ IF ended.status # "returned"
               THEN /\ evaluation' = Idle
                    /\ last' = [op |-> "add_law", law_text |-> law_text,
                                status |-> ended.status]
               ELSE /\ evaluation' =
                         [pc |-> "add_law", appended |-> FALSE,
                          todo |-> convert_to_rules(parsed, "", law_enforcer.config),
                          began |-> law_enforcer.rules, after |-> ended.rules]
                    /\ last' = [op |-> "add_law_begins"]
            /\ UNCHANGED <<laws, active_laws, law_enforcer>>

\* self.rules[rule.action_name].append(rule), the list created when missing
AppendRule ==
    /\ evaluation.pc = "add_law"
    /\ ~evaluation.appended
    /\ IF evaluation.todo = <<>>
       THEN /\ evaluation' = Idle
            /\ last' = [op |-> "add_law", status |-> "returned"]
            /\ UNCHANGED law_enforcer
       ELSE LET rule == Head(evaluation.todo)
                list == dict_get(law_enforcer.rules, rule.action_name, <<>>)
            IN  /\ law_enforcer' =
                      [law_enforcer EXCEPT
                          !.rules = dict_set(@, rule.action_name, Append(list, rule))]
                /\ evaluation' = [evaluation EXCEPT !.appended = TRUE]
                /\ last' = [op |-> "append"]
    /\ UNCHANGED <<laws, active_laws>>

\* self.rules[rule.action_name].sort(key=lambda r: r.priority, reverse=True)
SortRules ==
    /\ evaluation.pc = "add_law"
    /\ evaluation.appended
    /\ LET rule == Head(evaluation.todo)
           list == dict_get(law_enforcer.rules, rule.action_name, <<>>)
       IN  law_enforcer' =
               [law_enforcer EXCEPT
                   !.rules = dict_set(@, rule.action_name, sort_by_priority(list, <<>>))]
    /\ evaluation' = [evaluation EXCEPT !.appended = FALSE, !.todo = Tail(@)]
    /\ last' = [op |-> "sort"]
    /\ UNCHANGED <<laws, active_laws>>

\* load_laws_from_db up to its loop: laws = db_session.query(Law).all()
BeginLoad ==
    LET rows == rows_from(laws, 1)
        ended == load_laws(law_enforcer, rows)
    IN  /\ evaluation = Idle
        /\ WithinBound(ended.rules)
        /\ evaluation' = [pc |-> "load_laws_from_db", rows |-> rows,
                          began |-> law_enforcer.rules, after |-> ended.rules]
        /\ last' = [op |-> "load_laws_from_db_begins"]
        /\ UNCHANGED <<laws, active_laws, law_enforcer>>

\* one iteration of the loop of load_laws_from_db (add_law of one row, its
\* exception printed), or the end of the loop
StepLoad ==
    /\ evaluation.pc = "load_laws_from_db"
    /\ IF evaluation.rows = <<>>
       THEN /\ evaluation' = Idle
            /\ last' = [op |-> "load_laws_from_db", status |-> "returned"]
            /\ UNCHANGED law_enforcer
       ELSE LET law == Head(evaluation.rows)
                added == add_law(law_enforcer, law.text, law.name)
            IN  /\ law_enforcer' = [law_enforcer EXCEPT !.rules = added.rules]
                /\ evaluation' = IF added.status = "hung" THEN [pc |-> "hung"]
                                 ELSE [evaluation EXCEPT !.rows = Tail(@)]
                /\ last' = [op |-> "load_laws_from_db_step", status |-> added.status]
    /\ UNCHANGED <<laws, active_laws>>

\* a Law row whose text compiles under the line configuration is committed
SaveLawOf(law_texts) ==
    \E law_id \in LawIds, text \in law_texts :
        /\ laws[law_id] = NoLaw
        /\ \A j \in LawIds : j < law_id => laws[j] # NoLaw
        /\ laws' = [laws EXCEPT ![law_id] = [name |-> LawNames[law_id], text |-> text]]
        /\ last' = [op |-> "save_law"]
        /\ UNCHANGED <<active_laws, law_enforcer, evaluation>>

NextLoad ==
    \/ SaveLawOf(LoadTexts)
    \/ BeginAddLaw
    \/ AppendRule
    \/ SortRules
    \/ BeginLoad
    \/ StepLoad
    \/ CheckPermission

SpecLoad == InitEnf /\ [][NextLoad]_vars

-----------------------------------------------------------------------------
(* Requests that overlap: toggle_active and vote_law commit the row first   *)
(* and update the manager afterwards, so another request, served by         *)
(* another thread, can run in between.  'evaluation' is the frame of the    *)
(* request that has committed and not yet updated the manager.  The         *)
(* session expires its objects on commit: the first attribute the handler   *)
(* reads after db.session.commit() reloads the row.  A commit that raises   *)
(* ends the request and leaves the row as it was.                           *)

\* has the commit gone through
CommitOutcomes == BOOLEAN

\* toggle_active up to and including db.session.commit()
ToggleCommits ==
    \E law_id \in RowIds, user \in Users, committed \in CommitOutcomes :
        /\ evaluation = Idle
        /\ is_admin(user)
        /\ Exists(law_id)
        /\ laws[law_id].validation_status = "approved"
        /\ IF committed
           THEN /\ laws' = [laws EXCEPT ![law_id].active = ~@]
                /\ evaluation' = [pc |-> "committed", handler |-> "toggle_active",
                                  law_id |-> law_id]
                /\ last' = [op |-> "commit"]
           ELSE /\ last' = [op |-> "toggle_active", status |-> "raised",
                            law_id |-> law_id]
                /\ UNCHANGED <<laws, evaluation>>
        /\ UNCHANGED <<active_laws, law_enforcer>>

\* vote_law up to and including the commit of the activation; the vote is
\* committed before, on its own
VoteCommits ==
    \E law_id \in RowIds, user \in Users, vote \in VoteChoices,
       vote_committed \in CommitOutcomes, committed \in CommitOutcomes :
        /\ evaluation = Idle
        /\ Exists(law_id)
        /\ laws[law_id].votes[user] = "none"
        /\ LET law == laws[law_id]
               votes == [law.votes EXCEPT ![user] = vote]
               activate == /\ total_votes(votes) >= 3
                           /\ 2 * for_votes(votes) > total_votes(votes)
                           /\ ~law.active
               voted == [law EXCEPT !.votes = votes]
           IN  IF ~vote_committed
               THEN /\ last' = [op |-> "vote_law", status |-> "raised",
                                law_id |-> law_id]
                    /\ UNCHANGED <<laws, evaluation>>
               ELSE IF ~activate
               THEN /\ laws' = [laws EXCEPT ![law_id] = voted]
                    /\ last' = [op |-> "vote_law", status |-> "returned",
                                law_id |-> law_id]
                    /\ UNCHANGED evaluation
               ELSE IF ~committed
               THEN /\ laws' = [laws EXCEPT ![law_id] = voted]
                    /\ last' = [op |-> "vote_law", status |-> "raised",
                                law_id |-> law_id]
                    /\ UNCHANGED evaluation
               ELSE /\ laws' = [laws EXCEPT ![law_id] = [voted EXCEPT !.active = TRUE]]
                    /\ evaluation' = [pc |-> "committed", handler |-> "vote_law",
                                      law_id |-> law_id]
                    /\ last' = [op |-> "commit"]
        /\ UNCHANGED <<active_laws, law_enforcer>>

\* the row reloaded by the first attribute read after the commit
RequestReads ==
    /\ evaluation.pc = "committed"
    /\ evaluation' = [pc |-> "read", handler |-> evaluation.handler,
                      law_id |-> evaluation.law_id,
                      law |-> laws[evaluation.law_id]]
    /\ last' = [op |-> "read"]
    /\ UNCHANGED <<laws, active_laws, law_enforcer>>

\* the update of the manager that ends toggle_active and vote_law
RequestUpdates ==
    /\ evaluation.pc = "read"
    /\ LET law == evaluation.law
           law_id == evaluation.law_id
       IN  active_laws' =
               IF evaluation.handler = "vote_law" \/ law.active
               THEN register_law(active_laws, law_id, app_law_data(law))
               ELSE pop(active_laws, law_id)
    /\ evaluation' = Idle
    /\ last' = [op |-> evaluation.handler, status |-> "returned",
                law_id |-> evaluation.law_id]
    /\ UNCHANGED <<laws, law_enforcer>>

NextRace ==
    \/ CreateLaw
    \/ ToggleCommits
    \/ VoteCommits
    \/ RequestReads
    \/ RequestUpdates
    \/ ToggleActive
    \/ VoteLaw

SpecRace == Init /\ [][NextRace]_vars

-----------------------------------------------------------------------------
(* The compiler of add_law on laws of every shape: negated or not, with     *)
(* one action, with two, with a condition and no action, with two           *)
(* subjects; and check_permission on the index they leave.                  *)

L_condition == <<"Polzovatel", "NL", "chlen", " ", "partii", "NL", "5">>

L_two == <<"Polzovatel", "NL", "golosovat", "NL", "5", "NL",
           "sozdavat", " ", "zakony", "NL", "5">>

L_two_deny == <<"Polzovatel", "NL", "ne", "NL", "golosovat", "NL", "5", "NL",
                "sozdavat", " ", "zakony", "NL", "5">>

L_subjects == <<"Pravitel", "NL", "Polzovatel", "NL", "golosovat", "NL", "5">>

CompileTexts == {L_allow, L_deny, L_member, L_condition, L_two, L_two_deny, L_subjects}

NextCompile == AddLawOf(CompileTexts) \/ CheckPermission

SpecCompile == InitEnf /\ [][NextCompile]_vars

-----------------------------------------------------------------------------
(* The integration layer (src/app/law_integration.py) on top of             *)
(* app.trigger_laws (src/app/__init__.py): LawChecker.check and the         *)
(* check_laws decorator.  A Python dict of the layer is a sequence of       *)
(* [key, value] entries; a decision returned by a script is a record, a     *)
(* number returned by a script is PyInt(n).                                 *)

Info == [action |-> "info", message |-> "m"]

Modify == [action |-> "modify", changes |-> <<[key |-> "k", value |-> 1]>>]

DenyPlain == [action |-> "deny"]

\* def apply(): return {'action': 'info', 'message': 'm'}
S_info ==
    Script("info", "ok", Module(<<ApplyDef(<<Return(DictLit)>>)>>), TRUE,
           <<Bind("apply", Func(0, <<Ret(Info)>>))>>)

\* def apply(): return {'action': 'modify', 'changes': {'k': 1}}
S_modify ==
    Script("modify", "ok", Module(<<ApplyDef(<<Return(DictLit)>>)>>), TRUE,
           <<Bind("apply", Func(0, <<Ret(Modify)>>))>>)

\* def apply(): return {'action': 'deny'}
S_deny_plain ==
    Script("deny_plain", "ok", Module(<<ApplyDef(<<Return(DictLit)>>)>>), TRUE,
           <<Bind("apply", Func(0, <<Ret(DenyPlain)>>))>>)

\* def apply(): return 1
S_number ==
    Script("number", "ok", Module(<<ApplyDef(<<Return(Leaf("Constant"))>>)>>), TRUE,
           <<Bind("apply", Func(0, <<Ret(PyInt(1))>>))>>)

\* the truth value of what a script returned
truth(value) == value # PyNone /\ value # PyInt(0)

\* has the value a method get
is_dict(value) == DOMAIN value \cap {"py", "int"} = {}

\* lr.get('action')
action_of(lr) == IF "action" \in DOMAIN lr THEN lr.action ELSE "None"

\* the default of lr.get('reason', ...)
DefaultReason == "Deistvie zapreshcheno zakonom"

reason_of(lr) == PyStr(IF "reason" \in DOMAIN lr THEN lr.reason ELSE DefaultReason)

\* the default of lr.get('message', ...)
DefaultMessage == "Informaciya ot sistemy zakonov"

message_of(lr) == IF "message" \in DOMAIN lr THEN lr.message ELSE DefaultMessage

\* d.update(changes)
RECURSIVE dict_update(_, _)
dict_update(d, changes) ==
    IF changes = <<>> THEN d
    ELSE dict_update(dict_set(d, Head(changes).key, Head(changes).value), Tail(changes))

\* app.trigger_laws(user_id, action, data): the batch of the manager, or []
\* when triggering raised; the rows it logs are not kept here
app_trigger_laws(table, user_id, action, data) ==
    LET batch == trigger_laws(table, LawContext(user_id, action, data)) IN
    CASE batch.status = "returned" -> [status |-> "returned", results |-> batch.results]
      [] batch.status = "raised" -> [status |-> "returned", results |-> <<>>]
      [] OTHER -> [status |-> "hung", results |-> <<>>]

CheckResult(allowed, reason, modifications, info_messages) ==
    [allowed |-> allowed, reason |-> reason, modifications |-> modifications,
     info_messages |-> info_messages]

\* a variant of the loop of LawChecker.check that refuses the action when
\* the execution of a law has failed
check_loop_failing_closed(results, result) ==
    IF \E j \in 1 .. Len(results) : ~results[j].success
    THEN [result EXCEPT !.allowed = FALSE, !.reason = PyStr(DefaultReason)]
    ELSE result

\* the loop of LawChecker.check; an exception raised in it is caught and
\* the result built so far is returned
RECURSIVE check_loop(_, _)
check_loop(results, result) ==
    IF results = <<>> THEN result
    ELSE LET law_result == Head(results)
             lr == law_result.result
         IN  IF ~(law_result.success /\ truth(lr))
             THEN check_loop(Tail(results), result)
             ELSE IF ~is_dict(lr) THEN result
             ELSE CASE action_of(lr) = "deny" ->
                         [result EXCEPT !.allowed = FALSE, !.reason = reason_of(lr)]
                    [] action_of(lr) = "modify" ->
                         check_loop(Tail(results),
                                    [result EXCEPT
                                        !.modifications =
                                            dict_update(@, IF "changes" \in DOMAIN lr
                                                           THEN lr.changes ELSE <<>>)])
                    [] action_of(lr) = "info" ->
                         check_loop(Tail(results),
                                    [result EXCEPT
                                        !.info_messages = Append(@, message_of(lr))])
                    [] OTHER -> check_loop(Tail(results), result)

\* LawChecker.check, given the batch current_app.trigger_laws returned
LawChecker_check(results) ==
    check_loop(results, CheckResult(TRUE, PyNone, <<>>, <<>>))

\* how a call of a function decorated with check_laws ends: the wrapped
\* function invoked with kwargs, or LawIntegrationError(reason)
Wrapped(status, reason, kwargs) ==
    [status |-> status, reason |-> reason, kwargs |-> kwargs]

\* the loop of the wrapper of check_laws; an exception other than
\* LawIntegrationError is caught and the function is invoked
RECURSIVE wrapper_loop(_, _)
wrapper_loop(results, kwargs) ==
    IF results = <<>> THEN Wrapped("invoked", PyNone, kwargs)
    ELSE LET result == Head(results)
             law_result == result.result
         IN  IF ~(result.success /\ truth(law_result))
             THEN wrapper_loop(Tail(results), kwargs)
             ELSE IF ~is_dict(law_result) THEN Wrapped("invoked", PyNone, kwargs)
             ELSE CASE action_of(law_result) = "deny" ->
                         Wrapped("LawIntegrationError", reason_of(law_result), kwargs)
                    [] action_of(law_result) = "modify" ->
                         wrapper_loop(Tail(results),
                                      dict_update(kwargs,
                                                  IF "changes" \in DOMAIN law_result
                                                  THEN law_result.changes ELSE <<>>))
                    [] OTHER -> wrapper_loop(Tail(results), kwargs)

\* the wrapper of check_laws, given the batch
check_laws(results, kwargs) == wrapper_loop(results, kwargs)

\* a trigger as the handlers of views/laws.py register it
vote_spec == <<[type |-> "action", actions |-> <<"vote">>]>>

IntLawData ==
    {LawData(code, on_vote, TRUE) :
        code \in {S_allow, S_deny, S_deny_plain, S_info, S_modify, S_number, S_import}}
    \cup {LawData(S_deny, vote_spec, TRUE)}

\* the keyword arguments of the decorated function
Kwargs == {<<>>, <<[key |-> "k", value |-> 0]>>}

\* LawChecker.check(action, data, user_id)
Check ==
    \E action \in Actions :
        LET batch == app_trigger_laws(active_laws, 1, action, [poll_id |-> 1]) IN
        /\ batch.status = "returned"
        /\ last' = [op |-> "check", batch |-> batch.results,
                    ret |-> LawChecker_check(batch.results)]
        /\ UNCHANGED <<laws, active_laws, law_enforcer, evaluation>>

\* a call of a function decorated with check_laws(action, data, user_id)
CheckLaws ==
    \E action \in Actions, kwargs \in Kwargs :
        LET batch == app_trigger_laws(active_laws, 1, action, [poll_id |-> 1]) IN
        /\ batch.status = "returned"
        /\ last' = [op |-> "check_laws", batch |-> batch.results,
                    ret |-> check_laws(batch.results, kwargs)]
        /\ UNCHANGED <<laws, active_laws, law_enforcer, evaluation>>

NextInt == RegisterLawOf(IntLawData) \/ Check \/ CheckLaws

SpecInt == Init /\ [][NextInt]_vars

-----------------------------------------------------------------------------
(* Properties of the validator and of the executor (SpecExec)               *)

\* every node of a syntax tree, by descent
RECURSIVE Descendants(_)
Descendants(node) ==
    {node} \cup UNION {Descendants(node.kids[i]) : i \in 1 .. Len(node.kids)}

\* an import of any form, del, global or nonlocal, a referenced name of the
\* forbidden list, or an attribute whose name begins with an underscore
HasForbiddenConstruct(tree) ==
    \E n \in Descendants(tree) :
        \/ n.kind \in {"Import", "ImportFrom", "Delete", "Global", "Nonlocal"}
        \/ n.kind = "Name" /\ n.name \in FORBIDDEN_NAMES
        \/ n.kind = "Attribute" /\ n.name # <<>> /\ Head(n.name) = "_"

\* validate_code returns for the script, and returns is_valid = False
Rejects(code) == ~Raises(validate_code(code)) /\ ~validate_code(code).is_valid

\* validate_code returns for the script, and returns is_valid = True
Accepts(code) == ~Raises(validate_code(code)) /\ validate_code(code).is_valid

\* C6: validate_code(text) returns is_valid = False exactly when the text has
\* a syntax error or its tree holds, at any depth, an import, a del / global /
\* nonlocal statement, a referenced name of the forbidden list or an attribute
\* beginning with an underscore; for every other text it returns (True, 'OK').
C6_ValidateCodeVerdict ==
    last.op = "validate_code" =>
        IF \/ last.code.parse = "SyntaxError"
           \/ last.code.parse = "ok" /\ HasForbiddenConstruct(last.code.tree)
        THEN Rejects(last.code) /\ last.ret = validate_code(last.code)
        ELSE last.ret = [is_valid |-> TRUE, msg |-> Str(<<"OK">>)]

\* C7 (as stated): for a script validate_code rejects, execute_law returns
\* success = False, result = None and, as its error, the very message
\* validate_code returns, and compile() is not reached.
C7_ErrorIsValidatorMessage ==
    last.op = "execute_law" /\ Rejects(last.code) =>
        /\ last.out.status = "returned"
        /\ last.out.ret =
               ExecutionResult(FALSE, validate_code(last.code).msg, PyNone)
        /\ ~last.out.compiled

\* C7 (amended): for a script validate_code rejects, execute_law returns
\* success = False, result = None and an error made of the fixed security-check
\* prefix followed by the validator's message, and compile() is not reached.
C7_ErrorIsPrefixedValidatorMessage ==
    last.op = "execute_law" /\ Rejects(last.code) =>
        /\ last.out.status = "returned"
        /\ last.out.ret =
               ExecutionResult(
                   FALSE,
                   Str(<<"Law code failed the security check">>
                       \o validate_code(last.code).msg.str),
                   PyNone)
        /\ ~last.out.compiled

\* execute_law has been called on a script with a nested import
C7_RejectedScriptExecuted ==
    /\ last.op = "execute_law"
    /\ last.code = S_import_datetime
    /\ Rejects(last.code)
    /\ ~last.out.ret.success

\* the top-level statements of a script that bind the name
TopBinds(code, name) ==
    {i \in 1 .. Len(code.top) : code.top[i].op = "bind" /\ code.top[i].name = name}

\* the value the script binds to 'apply'
EntryPoint(code) == code.top[CHOOSE i \in TopBinds(code, "apply") : TRUE].val

\* A script with no forbidden construct, made of top-level definitions only,
\* exactly one of them apply: a zero-argument function that uses names the
\* sandbox or the script itself defines and returns a decision object.
DefinesOneEntryPoint(code) ==
    /\ code.parse = "ok"
    /\ ~HasForbiddenConstruct(code.tree)
    /\ code.compile_ok
    /\ \A i \in 1 .. Len(code.top) : code.top[i].op = "bind"
    /\ Cardinality(TopBinds(code, "apply")) = 1
    /\ LET f == EntryPoint(code) IN
       /\ f.callable
       /\ f.nargs = 0
       /\ f.body # <<>>
       /\ f.body[Len(f.body)].op = "return"
       /\ f.body[Len(f.body)].val \in {Allow, DenyX}
       /\ \A j \in 1 .. Len(f.body) - 1 :
              \/ /\ f.body[j].op = "read"
                 /\ \/ f.body[j].name \in safe_globals \cup safe_builtins
                    \/ TopBinds(code, f.body[j].name) # {}
              \/ /\ f.body[j].op = "getattr"
                 /\ f.body[j].attr \in LawAPI_operations

\* C8: for a script with no forbidden construct and exactly one zero-argument
\* apply() returning a decision object, execute_law returns success = True,
\* error = None and that object, whatever top-level helpers or constants the
\* script defines and apply() uses.
C8_EntryPointSucceeds ==
    last.op = "execute_law" /\ DefinesOneEntryPoint(last.code) =>
        /\ last.out.status = "returned"
        /\ last.out.ret =
               LET f == EntryPoint(last.code) IN
               ExecutionResult(TRUE, PyNone, f.body[Len(f.body)].val)

\* the script is accepted and an exception is raised while it is compiled,
\* while its top level runs or while apply() is called
FailsInside(code, context) ==
    /\ Accepts(code)
    /\ \/ ~code.compile_ok
       \/ LET top == run(code.top, context, safe_locals, "module") IN
          \/ top.end = "raise"
          \/ /\ top.end = "fallthrough"
             /\ "apply" \in DOMAIN top.locals
             /\ LET f == top.locals["apply"] IN
                \/ ~f.callable
                \/ f.callable /\ f.nargs # 0
                \/ /\ f.callable
                   /\ f.nargs = 0
                   /\ run(f.body, top.context, safe_locals, "function").end = "raise"

\* the script is accepted, its top level runs to its end and binds no 'apply'
LacksEntryPoint(code, context) ==
    /\ Accepts(code)
    /\ code.compile_ok
    /\ LET top == run(code.top, context, safe_locals, "module") IN
       top.end = "fallthrough" /\ "apply" \notin DOMAIN top.locals

\* C9: execute_law never raises and reports every failure as a value: an
\* accepted script without 'apply' yields success = False with the
\* missing-entry-point error, and an exception raised while compiling, running
\* the top level or calling apply() yields success = False, an error message
\* and result = None.
C9_FailuresAreValues ==
    last.op = "execute_law" =>
        /\ last.out.status # "raised"
        /\ LacksEntryPoint(last.code, last.context) =>
               last.out.ret =
                   ExecutionResult(FALSE,
                                   Str(<<"A law must contain the function apply()">>),
                                   PyNone)
        /\ FailsInside(last.code, last.context) =>
               /\ last.out.status = "returned"
               /\ ~last.out.ret.success
               /\ "str" \in DOMAIN last.out.ret.error
               /\ last.out.ret.result = PyNone

-----------------------------------------------------------------------------
(* Properties of the manager (SpecMgr)                                      *)

\* the law_ids of a list of results or of entries, in order
Ids(list) == [i \in 1 .. Len(list) |-> list[i].law_id]

\* the list without its i-th element
Without(list, i) == SubSeq(list, 1, i - 1) \o SubSeq(list, i + 1, Len(list))

\* the registered-active entries with a trigger that matches the context
Matching(table, context) ==
    SelectSeq(table,
              LAMBDA e : e.active /\ should_execute(e.triggers, context) = "yes")

\* C1: in a trigger_laws(context) call that returns, a law whose script fails
\* does not disturb the others: the batch holds one result for every
\* registered-active law with a trigger matching the context, a failing law's
\* result carries success = False and an error, and the other results are
\* those of the same call with the failing law not registered.
C1_FailureIsolation ==
    last.op = "trigger_laws" /\ last.batch.status = "returned" =>
        LET results == last.batch.results IN
        /\ Ids(results) = Ids(Matching(active_laws, last.context))
        /\ \A i \in 1 .. Len(results) :
               ~results[i].success =>
                   /\ "str" \in DOMAIN results[i].error
                   /\ LET rest == trigger_laws(pop(active_laws, results[i].law_id),
                                               last.context)
                      IN  /\ rest.status = "returned"
                          /\ rest.results = Without(results, i)

\* C4: a script is compiled or run only after validate_code accepted that
\* very text: in every trigger batch and in every test_law call, an
\* execution that reached compile() was of a script the validator accepts.
C4_CompiledOnlyIfAccepted ==
    /\ last.op = "trigger_laws" =>
           \A i \in 1 .. Len(last.batch.turns) :
               last.batch.turns[i].compiled => Accepts(last.batch.turns[i].code)
    /\ last.op = "test_law" => (last.compiled => Accepts(last.code))

\* one batch executed a rejected script, which was not compiled, and an
\* accepted one, which was
C4_BatchWithRejectedAndAccepted ==
    /\ last.op = "trigger_laws"
    /\ \E i, j \in 1 .. Len(last.batch.turns) :
           /\ last.batch.turns[i].executed
           /\ Rejects(last.batch.turns[i].code)
           /\ ~last.batch.turns[i].compiled
           /\ last.batch.turns[j].executed
           /\ Accepts(last.batch.turns[j].code)
           /\ last.batch.turns[j].compiled

\* C10: every trigger_laws call returns its batch: an executed script that
\* does not terminate is interrupted (MAX_EXECUTION_TIME), yields a failed
\* result, and the laws after it are still evaluated.
C10_BatchReturns ==
    last.op = "trigger_laws" =>
        /\ last.batch.status # "hung"
        /\ \A i \in 1 .. Len(last.batch.turns) :
               /\ last.batch.turns[i].executed
               /\ last.batch.turns[i].code = S_loop
               => \E k \in 1 .. Len(last.batch.results) :
                      /\ last.batch.results[k].law_id = last.batch.turns[i].law_id
                      /\ ~last.batch.results[k].success

-----------------------------------------------------------------------------
(* Properties of the application (Spec)                                     *)

TriggerMatches(trigger, context) ==
    IF "type" \in DOMAIN trigger
    THEN \/ trigger.type = "action" /\ In(context.action, trigger.actions)
         \/ trigger.type = "time" /\ context.action = "time_check"
    ELSE should_trigger(trigger, context) = "yes"

-----------------------------------------------------------------------------
(* Properties of the sandbox: what a script can change and reach (SpecExec) *)

\* C11: executing a law script leaves the LawContext unchanged: after
\* execute_law returns, the context's user_id, action, timestamp and data are
\* what they were before the call.
C11_ContextUnchanged ==
    last.op = "execute_law" /\ last.out.status = "returned" =>
        /\ last.out.context.user_id = last.context.user_id
        /\ last.out.context.action = last.context.action
        /\ last.out.context.timestamp = last.context.timestamp
        /\ last.out.context.data = last.context.data

\* the attributes of api that the script's apply() gets
ApiAttributesUsed(code) ==
    LET body == EntryPoint(code).body IN
    {body[j].attr : j \in {k \in 1 .. Len(body) : body[k].op = "getattr"}}

\* C12: a script that passes validate_code reaches through api only the five
\* operations get_user, get_party, count_users_where, get_government and
\* log_action, and never obtains the database/session handle: what it returns
\* holds nothing of the host behind those operations.
C12_ApiConfinement ==
    /\ last.op = "execute_law"
    /\ Accepts(last.code)
    /\ last.out.status = "returned"
    /\ last.out.ret.success
    => /\ ApiAttributesUsed(last.code) \subseteq LawAPI_operations
       /\ ~("message" \in DOMAIN last.out.ret.result
            /\ last.out.ret.result.message = DbSession)

-----------------------------------------------------------------------------
(* Properties of the manager watched for failures (SpecErr)                 *)

\* C26: a law whose executions have failed ERROR_THRESHOLD times in a row is
\* deactivated: no later trigger_laws call executes it until it is
\* registered again.
C26_FailingLawIsDeactivated ==
    last.op = "trigger_laws" =>
        \A j \in 1 .. Len(last.batch.turns) :
            last.batch.turns[j].executed =>
                last.failed_before[last.batch.turns[j].law_id] < ERROR_THRESHOLD

-----------------------------------------------------------------------------
(* Properties of the rule enforcer (SpecEnf)                                *)

\* the rule list of an action in an index
RulesFor(index, action_name) == dict_get(index, action_name, <<>>)

\* the positions of the rules of a list that match a user
MatchingAt(user, rules) == {j \in 1 .. Len(rules) : check_rule(user, rules[j])}

\* C13: check_permission answers False when the action has no rules or no
\* rule matches the subject, and otherwise the allow polarity of the first
\* rule, in stored order, that matches; the rules after it do not count.
C13_FirstMatchDecides ==
    last.op = "check_permission" =>
        LET rules == RulesFor(law_enforcer.rules, last.action_name)
            matching == MatchingAt(last.user, rules)
        IN  last.ret = IF matching = {} THEN FALSE
                       ELSE rules[CHOOSE j \in matching :
                                    \A k \in matching : j <= k].allow

\* check_permission has passed over a rule that does not match, answered
\* with the next one, and a later matching rule has the other polarity
C13_LaterRuleDisagrees ==
    /\ last.op = "check_permission"
    /\ LET rules == RulesFor(law_enforcer.rules, last.action_name)
           matching == MatchingAt(last.user, rules)
       IN  /\ 1 \notin matching
           /\ \E j \in matching, k \in matching :
                 j < k /\ rules[j].allow # rules[k].allow /\ last.ret = rules[j].allow

\* C14: when the list of an action holds a negated rule (priority 1, deny)
\* and an affirmative one (priority 0, allow), check_permission answers
\* False for every subject the negated rule matches, in whatever order the
\* laws were registered and whatever other rules are registered.
C14_NegatedRuleWins ==
    last.op = "check_permission" =>
        LET rules == RulesFor(law_enforcer.rules, last.action_name) IN
        (/\ \E j \in MatchingAt(last.user, rules) :
                ~rules[j].allow /\ rules[j].priority = 1
         /\ \E k \in 1 .. Len(rules) : rules[k].allow /\ rules[k].priority = 0)
        => last.ret = FALSE

\* the load registers the law of row 1 before the law of row 2: here the
\* affirmative law was registered first, it matches the subject as the
\* negated one does, and another affirmative rule is registered too
C14_AffirmativeRegisteredFirst ==
    /\ last.op = "check_permission"
    /\ last.ret = FALSE
    /\ LET rules == RulesFor(law_enforcer.rules, last.action_name)
           matching == MatchingAt(last.user, rules)
       IN  /\ \E j \in matching, k \in matching :
                 /\ ~rules[j].allow /\ rules[j].metadata.source_law = "law2"
                 /\ rules[k].allow /\ rules[k].metadata.source_law = "law1"
           /\ \E m \in 1 .. Len(rules) :
                 rules[m].allow /\ rules[m].metadata.source_law = ""

\* a list is in descending order of priority
SortedByPriority(rules) ==
    \A j \in 1 .. Len(rules), k \in 1 .. Len(rules) :
        j < k => rules[j].priority >= rules[k].priority

\* the rules of one priority, in the order of the list
OfPriority(rules, priority) == SelectSeq(rules, LAMBDA r : r.priority = priority)

IsPrefix(s, t) == Len(s) <= Len(t) /\ SubSeq(t, 1, Len(s)) = s

\* C15: after every add_law and load_laws_from_db each list of the index is
\* in descending order of priority, and among the rules of one priority the
\* ones that were there keep their order and the new ones come after them.
C15_SortedInInsertionOrder ==
    [][\A action_name \in ActionNames :
         LET old == RulesFor(law_enforcer.rules, action_name)
             new == RulesFor(law_enforcer.rules', action_name)
         IN  /\ SortedByPriority(new)
             /\ \A priority \in {0, 1} :
                   IsPrefix(OfPriority(old, priority), OfPriority(new, priority))]_vars

\* add_law has put a negated rule into a list that held two different
\* affirmative rules
C15_DenyAddedAfterAllows ==
    /\ last.op = "add_law"
    /\ last.status = "returned"
    /\ last.law_text = L_deny
    /\ LET rules == RulesFor(law_enforcer.rules, <<"vote">>) IN
       /\ Len(rules) >= 3
       /\ \E j \in 1 .. Len(rules), k \in 1 .. Len(rules) :
             rules[j].priority = 0 /\ rules[k].priority = 0 /\ rules[j] # rules[k]
       /\ Cardinality({j \in 1 .. Len(rules) : rules[j].priority = 1}) = 1

\* C16: a second load from the same rows leaves an index on which
\* check_permission answers, for every subject and action, what it answered
\* after the first load.
C16_ReloadKeepsAnswers ==
    (/\ last.op = "load_laws_from_db"
     /\ last.status = "returned"
     /\ last.reload)
    => \A user \in Subjects, action_name \in ActionNames :
           check_permission(law_enforcer.rules, user, action_name)
           = check_permission(last.before, user, action_name)

\* the second load has run on two rows, a negated law and an affirmative
\* one, and has indexed their rules again
C16_ReloadedTwoLaws ==
    /\ last.op = "load_laws_from_db"
    /\ last.status = "returned"
    /\ last.reload
    /\ Len(last.rows) = 2
    /\ last.rows[1].text # last.rows[2].text
    /\ Len(RulesFor(law_enforcer.rules, <<"vote">>)) = 4
    /\ Len(RulesFor(last.before, <<"vote">>)) = 2

\* the rules the rows compile to, in the order of the rows
RECURSIVE RulesOfRows(_, _)
RulesOfRows(rows, config) ==
    IF rows = <<>> THEN <<>>
    ELSE LET parsed == UniversalLawParser_parse(Head(rows).text, config) IN
         (IF ~IsHung(parsed) /\ parsed.is_valid
          THEN convert_to_rules(parsed, Head(rows).name, config) ELSE <<>>)
         \o RulesOfRows(Tail(rows), config)

\* how many times a rule occurs in a list
Occurrences(rule, rules) == Cardinality({j \in 1 .. Len(rules) : rules[j] = rule})

\* C17: after load_laws_from_db the index holds exactly the rules the rows
\* persisted at that moment compile to, each of them once, however many
\* times the load is repeated.  (The rules add_law was given directly carry
\* no law name and are left aside.)
C17_IndexMirrorsRows ==
    (last.op = "load_laws_from_db" /\ last.status = "returned") =>
        LET compiled == RulesOfRows(last.rows, law_enforcer.config) IN
        /\ \A j \in 1 .. Len(law_enforcer.rules) :
              \A k \in 1 .. Len(law_enforcer.rules[j].value) :
                LET rule == law_enforcer.rules[j].value[k] IN
                rule.metadata.source_law # ""
                => Occurrences(rule, law_enforcer.rules[j].value)
                   = Occurrences(rule, compiled)
        /\ \A k \in 1 .. Len(compiled) :
              Occurrences(compiled[k],
                          RulesFor(law_enforcer.rules, compiled[k].action_name)) = 1

\* C25: in a check_permission call, a rule matches the subject only if the
\* predicate of its subject type holds: 'Polzovatel' asks for a subject that
\* is not None, 'Pravitel' and 'Administrator' for one with the admin flag.
C25_SubjectTypeHolds ==
    last.op = "check_permission" =>
        LET rules == RulesFor(law_enforcer.rules, last.action_name) IN
        \A j \in MatchingAt(last.user, rules) :
            /\ rules[j].subject_type = <<"Polzovatel">> => last.user # PyNone
            /\ rules[j].subject_type \in {<<"Pravitel">>, <<"Administrator">>} =>
                   (last.user # PyNone /\ last.user.admin)

-----------------------------------------------------------------------------
(* Properties of the parser (SpecParse)                                     *)

\* C18: the phrase 'Polzovatel chlen partii golosovat', its words separated
\* by blanks, parses as valid to one subject, one condition and one action
\* without negation; it compiles to one rule for 'vote' that allows, of
\* priority 0; and once add_law has taken it check_permission for 'vote'
\* answers True for a user with a party and False for a user without.
C18_PhraseCompiles ==
    (last.op = "parse" /\ last.law_text = T_phrase) =>
        /\ ~IsHung(last.ret)
        /\ last.ret.is_valid
        /\ Len(last.ret.structure.subjects) = 1
        /\ Len(last.ret.structure.conditions) = 1
        /\ Len(last.ret.structure.actions) = 1
        /\ ~last.ret.structure.negation
        /\ LET rules == convert_to_rules(last.ret, "", law_enforcer.config) IN
           /\ Len(rules) = 1
           /\ rules[1].action_name = <<"vote">>
           /\ rules[1].allow
           /\ rules[1].priority = 0
        /\ LET ended == add_law(law_enforcer, T_phrase, "") IN
           /\ ended.status = "returned"
           /\ \A user \in Subjects \ {PyNone} :
                 check_permission(ended.rules, user, <<"vote">>) = bool(user.party_id)

SubjectWords == {"Polzovatel", "Pravitel", "Administrator"}

\* C19: for every text without a subject keyword (the empty text, blanks,
\* delimiters only, texts with action or condition keywords) parse returns
\* a ParsedLaw that is not valid and whose errors hold the message that no
\* subjects were found.
C19_NoSubjectIsReported ==
    (/\ last.op = "parse"
     /\ \A j \in 1 .. Len(last.law_text) : last.law_text[j] \notin SubjectWords)
    => /\ ~IsHung(last.ret)
       /\ ~last.ret.is_valid
       /\ \E j \in 1 .. Len(last.ret.errors) :
             last.ret.errors[j] = "No subjects found in law"

-----------------------------------------------------------------------------
(* Properties of overlapping evaluations (SpecConc)                         *)

\* C20: an evaluation that a registration, a re-registration or a removal
\* overlaps works on the laws or rules as they were when it began: it
\* ends normally, trigger_laws with the results of the table it began on
\* and check_permission with the answer of the index it began on.
C20_EvaluationUsesSnapshot ==
    /\ last.op = "trigger_laws_ends" =>
          /\ last.status = "returned"
          /\ last.results = trigger_laws(last.began.table, last.began.context).results
    /\ last.op = "check_permission_ends" =>
          last.ret = check_permission(last.began, last.user, last.action_name)
\* C27: StructuralParser.parse terminates on every token sequence the
\* tokenizer produces, so parse(text) returns a ParsedLaw for every text.
C27_ParseReturns == last.op = "parse" => ~IsHung(last.ret)

-----------------------------------------------------------------------------
(* Properties of checks that overlap a change of the index (SpecLoad)       *)

\* C21: a check_permission that runs while add_law or load_laws_from_db is
\* changing the index returns the answer of the index as it was before the
\* change or of the index after the whole change, never that of an index
\* in between.
C21_IndexChangesAreAtomic ==
    (/\ last.op = "check_permission"
     /\ evaluation.pc \in {"add_law", "load_laws_from_db"}) =>
        last.ret \in {check_permission(evaluation.began, last.user, last.action_name),
                      check_permission(evaluation.after, last.user, last.action_name)}

-----------------------------------------------------------------------------
(* Properties of overlapping requests (SpecRace)                            *)

-----------------------------------------------------------------------------
(* Properties of the compiler (SpecCompile)                                 *)

\* the action entries of a structure that are indexed under action_name
EntriesFor(structure, config, action_name) ==
    {j \in 1 .. Len(structure.actions) :
        normalize_action_name(structure.actions[j].type, config) = action_name}

\* the action names of an index
KeysOf(index) == {index[j].key : j \in 1 .. Len(index)}

\* C28: an add_law of a valid law adds, for each action entry, exactly one
\* rule, whose subject_type is the first parsed subject, whose allow is the
\* complement of the negation flag and whose priority is 1 iff the flag is
\* set; allow = False iff priority = 1 for every rule of the index; a valid
\* law without action entries leaves the index as it was.
C28_OneRulePerAction ==
    [][(last'.op = "add_law" /\ last'.status = "returned") =>
        LET config == law_enforcer.config
            structure == UniversalLawParser_parse(last'.law_text, config).structure
            old == law_enforcer.rules
            new == law_enforcer'.rules
        IN  /\ \A action_name \in KeysOf(old) \cup KeysOf(new) \cup ActionNames :
                 LET was == RulesFor(old, action_name)
                     is == RulesFor(new, action_name)
                 IN  /\ Len(is) = Len(was)
                                  + Cardinality(EntriesFor(structure, config, action_name))
                     /\ \A j \in 1 .. Len(is) :
                          \/ Occurrences(is[j], is) = Occurrences(is[j], was)
                          \/ /\ is[j].subject_type = structure.subjects[1].type
                             /\ is[j].allow = ~structure.negation
                             /\ is[j].priority = (IF structure.negation THEN 1 ELSE 0)
                     /\ \A j \in 1 .. Len(was) :
                          Occurrences(was[j], is) >= Occurrences(was[j], was)
                     /\ \A j \in 1 .. Len(is) : is[j].allow = FALSE <=> is[j].priority = 1
            /\ structure.actions = <<>> => new = old]_vars

\* a law with a condition and no action has been added to an index that
\* holds the two rules of a negated law with two actions
C28_ConditionOnlyAfterTwoDenies ==
    /\ last.op = "add_law" /\ last.status = "returned"
    /\ last.law_text = L_condition
    /\ \E j \in 1 .. Len(RulesFor(law_enforcer.rules, <<"vote">>)) :
          ~RulesFor(law_enforcer.rules, <<"vote">>)[j].allow
    /\ \E j \in 1 .. Len(RulesFor(law_enforcer.rules, <<"create_law">>)) :
          ~RulesFor(law_enforcer.rules, <<"create_law">>)[j].allow

-----------------------------------------------------------------------------
(* Properties of the integration layer (SpecInt)                            *)

\* the positions of the successful results of a batch that decide 'deny'
DenyingAt(results) ==
    {j \in 1 .. Len(results) :
        /\ results[j].success
        /\ is_dict(results[j].result)
        /\ action_of(results[j].result) = "deny"}

First(positions) == CHOOSE j \in positions : \A k \in positions : j <= k

\* C29: whenever the batch holds a successful result that decides 'deny',
\* LawChecker.check returns allowed = False with the reason of the first
\* such result, and check_laws raises LawIntegrationError without invoking
\* the wrapped function.
C29_DenyIsEnforced ==
    (last.op \in {"check", "check_laws"} /\ DenyingAt(last.batch) # {}) =>
        LET first == last.batch[First(DenyingAt(last.batch))].result IN
        /\ last.op = "check" =>
              (~last.ret.allowed /\ last.ret.reason = reason_of(first))
        /\ last.op = "check_laws" => last.ret.status = "LawIntegrationError"

\* C30: when no result of the batch is a successful 'deny', also when every
\* execution failed or the batch is empty because triggering raised,
\* LawChecker.check returns allowed = True and check_laws invokes the
\* wrapped function.
C30_FailsOpen ==
    (last.op \in {"check", "check_laws"} /\ DenyingAt(last.batch) = {}) =>
        /\ last.op = "check" => last.ret.allowed
        /\ last.op = "check_laws" => last.ret.status = "invoked"

\* a deny law is registered with a trigger that makes triggering raise, the
\* batch is empty, and the check lets the action through
C30_DenyLawTriggeringRaised ==
    /\ last.op = "check"
    /\ last.batch = <<>>
    /\ last.ret.allowed
    /\ \E i \in 1 .. Len(active_laws) :
          active_laws[i].code = S_deny /\ active_laws[i].triggers = vote_spec

====
